---- MODULE Spec2Model ----
(***************************************************************************)
(* A model of the starsector section tree: the structure parser            *)
(* (parser/structure.rs), the arena (arena.rs), the emitter (emit.rs) and  *)
(* the structural and content operations on sections (tree.rs,             *)
(* headline/parser.rs).                                                    *)
(*                                                                         *)
(* Texts are sequences of bytes; a byte is one of the one-character        *)
(* strings of Alphabet.  Offsets are 0-based as in the source.  Node ids   *)
(* are 1..NumNodes(ar); 0 stands for None in a link.                       *)
(***************************************************************************)
EXTENDS Integers, Sequences, FiniteSets, TLC

VARIABLES arena, docs, handles, op, panicked, ok_so_far, nops, input, out

vars == <<arena, docs, handles, op, panicked, ok_so_far, nops, input, out>>

(***************************************************************************)
(* Bounds of the model.                                                    *)
(***************************************************************************)
MaxLen == 6
MaxNodes == 6
MaxOps == 3
MaxLevel == 3

NL == "\n"
STAR == "*"
SP == " "
TAB == "\t"

\* the bytes the parser tells apart: star, ASCII space, newline, and two
\* bytes that are none of these (a letter, and a tab standing for every
\* whitespace that is not the ASCII space)
Alphabet == {STAR, SP, NL, "a", TAB}

\* u16 arithmetic (`as u16`)
U16(i) == i % 65536

RECURSIVE StringsOfLen(_)
StringsOfLen(n) ==
    IF n = 0 THEN {<<>>}
    ELSE {Append(s, c) : s \in StringsOfLen(n - 1), c \in Alphabet}

Strings == UNION {StringsOfLen(n) : n \in 0..MaxLen}

Byte(s, i) == s[i + 1]
slice_bytes(s, a, b) == SubSeq(s, a + 1, b)

RECURSIVE Stars(_)
Stars(n) == IF n = 0 THEN <<>> ELSE <<STAR>> \o Stars(n - 1)

(***************************************************************************)
(* parser/structure.rs                                                     *)
(***************************************************************************)
\* the match on the first byte that is not a star: byte `stop` of the input,
\* which the loop reaches with i = stop - offset
headline_level_stop(s, offset, stop) ==
    IF Byte(s, stop) = SP /\ stop - offset > 0 THEN U16(stop - offset) ELSE 0

\* the loop passes over the stars from offset on; it ends at the first other
\* byte, or at the end of the input
headline_level(s, offset) ==
    IF \A i \in offset..(Len(s) - 1) : Byte(s, i) = STAR THEN 0
    ELSE headline_level_stop(s, offset,
             CHOOSE i \in offset..(Len(s) - 1) :
                 /\ Byte(s, i) # STAR
                 /\ \A j \in offset..(i - 1) : Byte(s, j) = STAR)

lex_level(s) == headline_level(s, 0)

\* the index of the first needle at or after offset, or the length
memchr(s, needle, offset) ==
    IF \A i \in offset..(Len(s) - 1) : Byte(s, i) # needle THEN Len(s)
    ELSE CHOOSE i \in offset..(Len(s) - 1) :
             /\ Byte(s, i) = needle
             /\ \A j \in offset..(i - 1) : Byte(s, j) # needle

next_line(s, offset) == memchr(s, NL, offset)

RECURSIVE parse_section_scan(_, _)
parse_section_scan(s, last) ==
    IF last < Len(s)
    THEN LET i == memchr(s, NL, last) IN
         IF i >= Len(s) \/ (Byte(s, last) = STAR /\ headline_level(s, last) # 0)
         THEN last
         ELSE parse_section_scan(s, i + 1)
    ELSE last

\* a parse_section that strips no newline from the end of a section
parse_section_keeping_newline(s, offset) ==
    <<parse_section_scan(s, offset), parse_section_scan(s, offset)>>

parse_section(s, offset) ==
    LET scanned == parse_section_scan(s, offset)
        last == IF scanned < Len(s) /\ headline_level(s, scanned) = 0
                THEN Len(s) ELSE scanned
    IN IF last > offset /\ last <= Len(s) /\ Byte(s, last - 1) = NL
       THEN <<last, last - 1>>
       ELSE <<last, last>>

(***************************************************************************)
(* The node pool (indextree::Arena<SectionData>): per node the payload     *)
(* (level, text), the five links and the removed mark.                     *)
(***************************************************************************)
EmptyArena ==
    [level |-> <<>>, text |-> <<>>, parent |-> <<>>, prev |-> <<>>,
     next |-> <<>>, first |-> <<>>, last |-> <<>>, removed |-> <<>>]

NumNodes(ar) == Len(ar.level)
Nodes(ar) == 1..NumNodes(ar)

new_node(ar, lvl, txt) ==
    [level |-> Append(ar.level, lvl), text |-> Append(ar.text, txt),
     parent |-> Append(ar.parent, 0), prev |-> Append(ar.prev, 0),
     next |-> Append(ar.next, 0), first |-> Append(ar.first, 0),
     last |-> Append(ar.last, 0), removed |-> Append(ar.removed, FALSE)]

RECURSIVE SiblingChain(_, _)
SiblingChain(ar, n) ==
    IF n = 0 THEN <<>> ELSE <<n>> \o SiblingChain(ar, ar.next[n])

children(ar, n) == SiblingChain(ar, ar.first[n])

RECURSIVE ancestors(_, _)
ancestors(ar, n) ==
    IF n = 0 THEN {} ELSE {n} \cup ancestors(ar, ar.parent[n])

\* NodeId::detach
detach(ar, n) ==
    LET p == ar.parent[n]
        pv == ar.prev[n]
        nx == ar.next[n]
        a1 == IF pv # 0 THEN [ar EXCEPT !.next[pv] = nx]
              ELSE IF p # 0 THEN [ar EXCEPT !.first[p] = nx]
              ELSE ar
        a2 == IF nx # 0 THEN [a1 EXCEPT !.prev[nx] = pv]
              ELSE IF p # 0 THEN [a1 EXCEPT !.last[p] = pv]
              ELSE a1
    IN [a2 EXCEPT !.parent[n] = 0, !.prev[n] = 0, !.next[n] = 0]

\* links the detached node new between pv and nx under parent p
insert_with_neighbors(ar, new, p, pv, nx) ==
    LET a0 == [ar EXCEPT !.parent[new] = p, !.prev[new] = pv, !.next[new] = nx]
        a1 == IF pv # 0 THEN [a0 EXCEPT !.next[pv] = new]
              ELSE IF p # 0 THEN [a0 EXCEPT !.first[p] = new]
              ELSE a0
    IN IF nx # 0 THEN [a1 EXCEPT !.prev[nx] = new]
       ELSE IF p # 0 THEN [a1 EXCEPT !.last[p] = new]
       ELSE a1

\* NodeId::append on a fresh node, as the parser uses it
node_append(ar, self, new) ==
    insert_with_neighbors(ar, new, self, ar.last[self], 0)

(***************************************************************************)
(* parse_document                                                          *)
(***************************************************************************)
\* a stack that is popped only past the deeper levels
RECURSIVE pop_stack_deeper(_, _, _)
pop_stack_deeper(ar, stack, level) ==
    IF stack = <<>> THEN <<>>
    ELSE IF level < ar.level[stack[Len(stack)]]
         THEN pop_stack_deeper(ar, SubSeq(stack, 1, Len(stack) - 1), level)
         ELSE stack

RECURSIVE pop_stack(_, _, _)
pop_stack(ar, stack, level) ==
    IF stack = <<>> THEN <<>>
    ELSE IF level <= ar.level[stack[Len(stack)]]
         THEN pop_stack(ar, SubSeq(stack, 1, Len(stack) - 1), level)
         ELSE stack

\* one turn of parse_document's while loop: the section ps = (new_offset,
\* end) that starts at offset becomes a node under the top of the popped
\* stack stk
RECURSIVE parse_headlines(_, _, _, _)
parse_headline_node(ar, s, stk, offset, level, ps) ==
    IF stk = <<>>
    THEN [arena |-> ar, offset |-> offset, stack_ok |-> FALSE]
    ELSE parse_headlines(
             node_append(new_node(ar, level, slice_bytes(s, offset, ps[2])),
                         stk[Len(stk)], NumNodes(ar) + 1),
             s, Append(stk, NumNodes(ar) + 1), ps[1])

parse_headlines(ar, s, stack, offset) ==
    IF headline_level(s, offset) = 0
    THEN [arena |-> ar, offset |-> offset, stack_ok |-> TRUE]
    ELSE parse_headline_node(ar, s,
                             pop_stack(ar, stack, headline_level(s, offset)),
                             offset, headline_level(s, offset),
                             parse_section(s, next_line(s, offset)))

\* "\*\** " at index k of t: one or more stars, however many, then a space
stars_then_space(t, k) ==
    \E i \in (k + 1)..(Len(t) - 1) :
        /\ Byte(t, i) = SP
        /\ \A j \in k..(i - 1) : Byte(t, j) = STAR

\* is_match of "(^|.*\n)\*\** .*" on t: t starts with a headline line, or
\* some line of t after the first does
RECURSIVE contains_headline_from(_, _)
contains_headline_from(t, k) ==
    IF k >= Len(t) THEN FALSE
    ELSE IF stars_then_space(t, k) THEN TRUE
    ELSE IF memchr(t, NL, k) >= Len(t) THEN FALSE
    ELSE contains_headline_from(t, memchr(t, NL, k) + 1)

\* is_match of "^\*\** .*": only the first line of t is looked at
contains_headline_first_line(t) == stars_then_space(t, 0)

contains_headline(t) == contains_headline_from(t, 0)

check_node_fails(ar, n) ==
    LET level == ar.level[n]
        text == ar.text[n]
    IN \/ lex_level(text) # level
       \/ /\ Len(text) >= level
          /\ contains_headline(slice_bytes(text, level, Len(text)))

RECURSIVE subtree(_, _)
RECURSIVE subtrees(_, _)
subtree(ar, n) == <<n>> \o subtrees(ar, children(ar, n))
subtrees(ar, kids) ==
    IF kids = <<>> THEN <<>>
    ELSE subtree(ar, Head(kids)) \o subtrees(ar, Tail(kids))

Range(f) == {f[i] : i \in DOMAIN f}

checker_fails(ar, root) ==
    \E n \in Range(subtree(ar, root)) : check_node_fails(ar, n)

\* the end of parse_document: r is what the while loop left
parse_document_end(s, root_id, empty_root_section, r) ==
    [arena |-> r.arena,
     doc |-> [root |-> root_id,
              terminal_newline |-> s[Len(s)] = NL,
              empty_root_section |-> empty_root_section],
     panic |-> \/ ~r.stack_ok
               \/ Len(s) # r.offset
               \/ checker_fails(r.arena, root_id)]

\* a parse_document that takes an empty root text for an absent root section
parse_document_from_empty_text(ar, s, ps) ==
    parse_document_end(
        s, NumNodes(ar) + 1, 0 = ps[2],
        parse_headlines(new_node(ar, 0, slice_bytes(s, 0, ps[2])), s,
                        <<NumNodes(ar) + 1>>, ps[1]))

\* parse_document from the root section ps = (new_offset, end) on
parse_document_from(ar, s, ps) ==
    parse_document_end(
        s, NumNodes(ar) + 1, ps[1] = ps[2] /\ 0 = ps[2],
        parse_headlines(new_node(ar, 0, slice_bytes(s, 0, ps[2])), s,
                        <<NumNodes(ar) + 1>>, ps[1]))

parse_document(ar, s) ==
    IF s = <<>>
    THEN [arena |-> new_node(ar, 0, <<>>),
          doc |-> [root |-> NumNodes(ar) + 1, terminal_newline |-> FALSE,
                   empty_root_section |-> TRUE],
          panic |-> FALSE]
    ELSE parse_document_from(ar, s, parse_section(s, 0))

(***************************************************************************)
(* emit.rs                                                                 *)
(***************************************************************************)
RECURSIVE emitter(_, _, _)
RECURSIVE emit_children(_, _, _)
emitter(ar, node, st) == emit_children(ar, children(ar, node), st)
emit_children(ar, kids, st) ==
    IF kids = <<>> THEN st
    ELSE LET child == Head(kids)
             t1 == IF st.owe_newline THEN Append(st.text, NL) ELSE st.text
             st1 == [text |-> t1 \o ar.text[child], owe_newline |-> TRUE]
         IN emit_children(ar, Tail(kids), emitter(ar, child, st1))

\* an emitter that forgets the document's terminal newline
emit_no_terminal_newline(st, terminal_newline) == st.text

\* an emitter that ends with the terminal newline only after non-empty text
emit_terminal_newline_after_text(st, terminal_newline) ==
    IF terminal_newline /\ st.text # <<>> THEN Append(st.text, NL) ELSE st.text

\* the end of section_tree_to_rope: st is what the emitter left
emit_terminal_newline(st, terminal_newline) ==
    IF terminal_newline /\ st.owe_newline THEN Append(st.text, NL) ELSE st.text

section_tree_to_rope(ar, root_id, terminal_newline, empty_root_section) ==
    emit_terminal_newline(
        emitter(ar, root_id,
                IF ar.level[root_id] > 0
                THEN [text |-> ar.text[root_id], owe_newline |-> TRUE]
                ELSE IF ar.text[root_id] = <<>>
                THEN [text |-> <<>>, owe_newline |-> ~empty_root_section]
                ELSE [text |-> ar.text[root_id], owe_newline |-> TRUE]),
        terminal_newline)

Document_to_rope(ar, doc) ==
    section_tree_to_rope(ar, doc.root, doc.terminal_newline,
                         doc.empty_root_section)

(***************************************************************************)
(* arena.rs                                                                *)
(***************************************************************************)
\* the result of a call: the arena it leaves, what it returns, and whether
\* it panicked
Result(ar, res, ret, panic) ==
    [arena |-> ar, res |-> res, ret |-> ret, panic |-> panic]

\* a new_section that collapses every root without text onto its one child
new_section_collapsing(r, kids) ==
    IF r.panic THEN Result(r.arena, "panic", 0, TRUE)
    ELSE IF Len(kids) > 0
    THEN IF Len(kids) > 1 THEN Result(r.arena, "None", 0, FALSE)
         ELSE IF r.arena.text[r.doc.root] = <<>>
         THEN Result(r.arena, "Some", kids[1], FALSE)
         ELSE Result(r.arena, "Some", r.doc.root, FALSE)
    ELSE Result(r.arena, "Some", r.doc.root, FALSE)

\* new_section after its parse_rope: r is the parsed document, kids the
\* children of its root
new_section_of(r, kids) ==
    IF r.panic THEN Result(r.arena, "panic", 0, TRUE)
    ELSE IF Len(kids) > 0
    THEN IF Len(kids) > 1 THEN Result(r.arena, "None", 0, FALSE)
         ELSE IF r.arena.text[r.doc.root] = <<>> /\ r.doc.empty_root_section
         THEN Result(r.arena, "Some", kids[1], FALSE)
         ELSE Result(r.arena, "Some", r.doc.root, FALSE)
    ELSE Result(r.arena, "Some", r.doc.root, FALSE)

new_section_parsed(r) == new_section_of(r, children(r.arena, r.doc.root))

new_section(ar, s) == new_section_parsed(parse_document(ar, s))

clone_section(ar, n) == new_node(ar, ar.level[n], ar.text[n])

section_max_level(ar, n, max_level) ==
    LET level == ar.level[n] IN
    IF level <= max_level THEN ar
    ELSE LET change == (level - max_level)
                       + (IF level > 0 /\ max_level = 0 THEN 1 ELSE 0)
         IN [ar EXCEPT !.level[n] = max_level,
                       !.text[n] = SubSeq(ar.text[n], change + 1, Len(ar.text[n]))]

\* section_min_level that puts no space after the stars of a former root
section_min_level_no_space(ar, n, min_level) ==
    LET level == ar.level[n] IN
    IF level >= min_level THEN ar
    ELSE [ar EXCEPT !.level[n] = min_level,
                    !.text[n] = Stars(min_level - level) \o ar.text[n]]

section_min_level(ar, n, min_level) ==
    LET level == ar.level[n] IN
    IF level >= min_level THEN ar
    ELSE LET change == min_level - level
             prefix == Stars(change) \o (IF level = 0 THEN <<SP>> ELSE <<>>)
         IN [ar EXCEPT !.level[n] = min_level,
                       !.text[n] = prefix \o ar.text[n]]

\* set_level that stores the level and leaves the stars of the text alone
Arena_set_level_only(ar, n, level) == [ar EXCEPT !.level[n] = level]

Arena_set_level(ar, n, level) ==
    IF ar.level[n] > level THEN section_max_level(ar, n, level)
    ELSE IF ar.level[n] < level THEN section_min_level(ar, n, level)
    ELSE ar

(***************************************************************************)
(* The node pool's checked link operations, as tree.rs calls them.  Each   *)
(* returns "ok" with the new arena or "IndextreeError" with the arena      *)
(* untouched.                                                              *)
(***************************************************************************)
\* the errors the pool's checked operations return: the node itself, a
\* removed node, or an ancestor of the node it would be attached to
id_check_fails(ar, self, new) ==
    \/ new = self
    \/ ar.removed[self] \/ ar.removed[new]
    \/ new \in ancestors(ar, self)

\* the four placements of new, on the arena ar it is already detached in
link_last(ar, self, new) ==
    insert_with_neighbors(ar, new, self, ar.last[self], 0)
\* a prepend that links the node after the last child
link_first_at_end(ar, self, new) ==
    insert_with_neighbors(ar, new, self, ar.last[self], 0)

link_first(ar, self, new) ==
    insert_with_neighbors(ar, new, self, 0, ar.first[self])
link_after(ar, self, new) ==
    insert_with_neighbors(ar, new, ar.parent[self], self, ar.next[self])
link_before(ar, self, new) ==
    insert_with_neighbors(ar, new, ar.parent[self], ar.prev[self], self)

id_checked_append(ar, self, new) ==
    IF id_check_fails(ar, self, new)
    THEN Result(ar, "IndextreeError", 0, FALSE)
    ELSE Result(link_last(detach(ar, new), self, new), "ok", 0, FALSE)

id_checked_prepend(ar, self, new) ==
    IF id_check_fails(ar, self, new)
    THEN Result(ar, "IndextreeError", 0, FALSE)
    ELSE Result(link_first(detach(ar, new), self, new), "ok", 0, FALSE)

id_checked_insert_after(ar, self, new) ==
    IF id_check_fails(ar, self, new)
    THEN Result(ar, "IndextreeError", 0, FALSE)
    ELSE Result(link_after(detach(ar, new), self, new), "ok", 0, FALSE)

id_checked_insert_before(ar, self, new) ==
    IF id_check_fails(ar, self, new)
    THEN Result(ar, "IndextreeError", 0, FALSE)
    ELSE Result(link_before(detach(ar, new), self, new), "ok", 0, FALSE)

RECURSIVE set_parents(_, _, _)
set_parents(ar, kids, p) ==
    IF kids = <<>> THEN ar
    ELSE set_parents([ar EXCEPT !.parent[Head(kids)] = p], Tail(kids), p)

\* NodeId::remove: the children take the node's place; the node is left
\* detached, childless and marked removed
\* the chain fc..lc takes the place between pv and nx under p
splice_last(ar, p, nx, lc) ==
    IF nx # 0 THEN [ar EXCEPT !.prev[nx] = lc]
    ELSE IF p # 0 THEN [ar EXCEPT !.last[p] = lc]
    ELSE ar

splice_first(ar, p, pv, fc) ==
    IF pv # 0 THEN [ar EXCEPT !.next[pv] = fc]
    ELSE IF p # 0 THEN [ar EXCEPT !.first[p] = fc]
    ELSE ar

splice(ar, p, pv, nx, fc, lc) ==
    IF fc = 0 THEN ar
    ELSE splice_last(
             splice_first([ar EXCEPT !.prev[fc] = pv, !.next[lc] = nx],
                          p, pv, fc),
             p, nx, lc)

mark_removed(ar, n) ==
    [ar EXCEPT !.first[n] = 0, !.last[n] = 0, !.removed[n] = TRUE]

id_remove(ar, n) ==
    mark_removed(
        splice(set_parents(detach(ar, n), children(ar, n), ar.parent[n]),
               ar.parent[n], ar.prev[n], ar.next[n], ar.first[n], ar.last[n]),
        n)

(***************************************************************************)
(* tree.rs: structure mutators                                             *)
(***************************************************************************)
Section_append(ar, self, new_child) ==
    LET min_level == U16(ar.level[self] + 1)
        a1 == section_min_level(ar, new_child, min_level)
    IN id_checked_append(a1, self, new_child)

Section_prepend(ar, self, new_child) ==
    LET min_level == U16(ar.level[self] + 1)
        a1 == section_min_level(ar, new_child, min_level)
    IN id_checked_prepend(a1, self, new_child)

Section_insert_after(ar, self, new_sibling) ==
    IF ar.parent[self] = 0 THEN Result(ar, "LevelError", 0, FALSE)
    ELSE LET min_level == U16(ar.level[ar.parent[self]] + 1)
             a1 == section_min_level(ar, new_sibling, min_level)
         IN id_checked_insert_after(a1, self, new_sibling)

Section_insert_before(ar, self, new_sibling) ==
    IF ar.parent[self] = 0 THEN Result(ar, "LevelError", 0, FALSE)
    ELSE LET min_level == U16(ar.level[ar.parent[self]] + 1)
             a1 == section_min_level(ar, new_sibling, min_level)
         IN id_checked_insert_before(a1, self, new_sibling)

\* a checked_append that lets a child of its parent's own level through
Section_checked_append_equal(ar, self, new_child) ==
    IF ar.level[new_child] < ar.level[self]
    THEN Result(ar, "LevelError", 0, FALSE)
    ELSE id_checked_append(ar, self, new_child)

Section_checked_append(ar, self, new_child) ==
    IF ar.level[new_child] <= ar.level[self]
    THEN Result(ar, "LevelError", 0, FALSE)
    ELSE id_checked_append(ar, self, new_child)

Section_checked_prepend(ar, self, new_child) ==
    IF ar.level[new_child] <= ar.level[self]
    THEN Result(ar, "LevelError", 0, FALSE)
    ELSE id_checked_prepend(ar, self, new_child)

Section_checked_insert_after(ar, self, new_sibling) ==
    IF ar.parent[self] # 0
       /\ ar.level[new_sibling] <= ar.level[ar.parent[self]]
    THEN Result(ar, "LevelError", 0, FALSE)
    ELSE id_checked_insert_after(ar, self, new_sibling)

Section_checked_insert_before(ar, self, new_sibling) ==
    IF ar.parent[self] # 0
       /\ ar.level[new_sibling] <= ar.level[ar.parent[self]]
    THEN Result(ar, "LevelError", 0, FALSE)
    ELSE id_checked_insert_before(ar, self, new_sibling)

\* checked_append(...).expect("Checked append failed")
expect(r) == Result(r.arena, r.res, 0, r.res # "ok")

Section_unchecked_append(ar, self, new_child) ==
    expect(Section_checked_append(ar, self, new_child))

Section_remove_subtree(ar, self) == Result(detach(ar, self), "ok", 0, FALSE)

Section_replace_with_children(ar, self) ==
    Result(id_remove(ar, self), "ok", 0, FALSE)

RECURSIVE remove_children_loop(_, _)
remove_children_loop(ar, self) ==
    IF ar.first[self] = 0 THEN ar
    ELSE remove_children_loop(detach(ar, ar.first[self]), self)

Section_remove_children(ar, self) ==
    Result(remove_children_loop(ar, self), "ok", 0, FALSE)

\* the body of clone_subtree's while loop for one popped pair: every child
\* of old_parent is cloned, appended to new_parent and pushed
RECURSIVE clone_children(_, _, _, _)
clone_child_appended(r, kids, new_parent, stack, new_child) ==
    IF r.panic THEN [arena |-> r.arena, stack |-> stack, panic |-> TRUE]
    ELSE clone_children(r.arena, Tail(kids), new_parent,
                        Append(stack, <<Head(kids), new_child>>))

clone_children(ar, kids, new_parent, stack) ==
    IF kids = <<>> THEN [arena |-> ar, stack |-> stack, panic |-> FALSE]
    ELSE clone_child_appended(
             Section_unchecked_append(clone_section(ar, Head(kids)),
                                      new_parent, NumNodes(ar) + 1),
             kids, new_parent, stack, NumNodes(ar) + 1)

RECURSIVE clone_subtree_loop(_, _)
clone_subtree_popped(r) ==
    IF r.panic THEN [arena |-> r.arena, panic |-> TRUE]
    ELSE clone_subtree_loop(r.arena, r.stack)

clone_subtree_loop(ar, stack) ==
    IF stack = <<>> THEN [arena |-> ar, panic |-> FALSE]
    ELSE clone_subtree_popped(
             clone_children(ar, children(ar, stack[Len(stack)][1]),
                            stack[Len(stack)][2],
                            SubSeq(stack, 1, Len(stack) - 1)))

clone_subtree_end(r, new_self) ==
    IF r.panic THEN Result(r.arena, "panic", 0, TRUE)
    ELSE Result(r.arena, "ok", new_self, FALSE)

Section_clone_subtree(ar, self) ==
    clone_subtree_end(
        clone_subtree_loop(clone_section(ar, self),
                           <<<<self, NumNodes(ar) + 1>>>>),
        NumNodes(ar) + 1)

(***************************************************************************)
(* headline/parser.rs: content mutators                                    *)
(***************************************************************************)
\* a level_change_ok that lets a section take a child's level
level_change_ok_child_level(ar, self, level) ==
    LET old_level == ar.level[self] IN
    IF old_level = level THEN TRUE
    ELSE IF old_level = 0 \/ level = 0 THEN FALSE
    ELSE IF ar.parent[self] # 0 /\ ar.level[ar.parent[self]] >= level THEN FALSE
    ELSE \A c \in Range(children(ar, self)) : ar.level[c] >= level

level_change_ok(ar, self, level) ==
    LET old_level == ar.level[self] IN
    IF old_level = level THEN TRUE
    ELSE IF old_level = 0 \/ level = 0 THEN FALSE
    ELSE IF ar.parent[self] # 0 /\ ar.level[ar.parent[self]] >= level THEN FALSE
    ELSE \A c \in Range(children(ar, self)) : ar.level[c] > level

Section_set_level(ar, self, level) ==
    IF level_change_ok(ar, self, level)
    THEN Result(Arena_set_level(ar, self, level), "ok", 0, FALSE)
    ELSE Result(ar, "LevelError", 0, FALSE)

\* *self = std::mem::take(section)
take_data(ar, self, section) ==
    [ar EXCEPT !.level[self] = ar.level[section],
               !.text[self] = ar.text[section],
               !.level[section] = 0,
               !.text[section] = <<>>]

\* set_raw after its new_section: r is what new_section returned
set_raw_of(r, self) ==
    IF r.panic THEN r
    ELSE IF r.res = "None" THEN Result(r.arena, "InvalidBodyError", 0, FALSE)
    ELSE IF Len(children(r.arena, r.ret)) > 0
    THEN Result(r.arena, "InvalidBodyError", 0, FALSE)
    ELSE IF level_change_ok(r.arena, self, r.arena.level[r.ret])
    THEN Result(id_remove(take_data(r.arena, self, r.ret), r.ret),
                "ok", 0, FALSE)
    ELSE Result(r.arena, "InvalidLevelError", 0, FALSE)

Section_set_raw(ar, self, raw) == set_raw_of(new_section(ar, raw), self)

(***************************************************************************)
(* The headline layer: characters, string helpers of std and nom           *)
(***************************************************************************)
\* U+00A0: whitespace in Unicode, not in ASCII
NBSP == "NBSP"
\* U+2603: neither alphanumeric nor whitespace
SNOWMAN == "SNOWMAN"
\* U+996D: alphanumeric, not ASCII
HAN == "HAN"
CR == "\r"

Digits == {"0", "1", "2", "3", "4", "5", "6", "7", "8", "9"}
Uppercase ==
    {"A", "B", "C", "D", "E", "F", "G", "H", "I", "J", "K", "L", "M", "N",
     "O", "P", "Q", "R", "S", "T", "U", "V", "W", "X", "Y", "Z"}
Lowercase ==
    {"a", "b", "c", "d", "e", "f", "g", "h", "i", "j", "k", "l", "m", "n",
     "o", "p", "q", "r", "s", "t", "u", "v", "w", "x", "y", "z"}

is_ascii_digit(c) == c \in Digits
is_ascii_uppercase(c) == c \in Uppercase
is_alphanumeric(c) == c \in Digits \cup Uppercase \cup Lowercase \cup {HAN}
is_whitespace(c) == c \in {SP, TAB, NL, CR, NBSP}
is_ascii_whitespace(c) == c \in {SP, TAB, NL, CR}
\* nom's space0 and space1 take spaces and tabs
is_space(c) == c \in {SP, TAB}

Drop(s, n) == SubSeq(s, n + 1, Len(s))
Take(s, n) == SubSeq(s, 1, n)

starts_with(s, p) == Len(s) >= Len(p) /\ Take(s, Len(p)) = p
ends_with(s, p) == Len(s) >= Len(p) /\ Drop(s, Len(s) - Len(p)) = p

\* the number of leading characters of s in the set cs
RECURSIVE PrefixLen(_, _)
PrefixLen(s, cs) ==
    IF s # <<>> /\ Head(s) \in cs THEN 1 + PrefixLen(Tail(s), cs) ELSE 0

\* the number of trailing characters of s in the set cs
RECURSIVE SuffixLen(_, _)
SuffixLen(s, cs) ==
    IF s # <<>> /\ s[Len(s)] \in cs THEN 1 + SuffixLen(Take(s, Len(s) - 1), cs)
    ELSE 0

\* the number of leading characters of s outside the set cs
RECURSIVE PrefixLenNot(_, _)
PrefixLenNot(s, cs) ==
    IF s # <<>> /\ Head(s) \notin cs THEN 1 + PrefixLenNot(Tail(s), cs) ELSE 0

Whitespace == {SP, TAB, NL, CR, NBSP}
AsciiWhitespace == {SP, TAB, NL, CR}
Spaces == {SP, TAB}

trim_start(s) == Drop(s, PrefixLen(s, Whitespace))
trim_end(s) == Take(s, Len(s) - SuffixLen(s, Whitespace))
trim(s) == trim_end(trim_start(s))
trim_end_ascii_whitespace(s) == Take(s, Len(s) - SuffixLen(s, AsciiWhitespace))
space0(s) == Drop(s, PrefixLen(s, Spaces))

\* str::split(sep): the components between the separators, empty ones kept
RECURSIVE split(_, _)
split(s, sep) ==
    LET n == PrefixLenNot(s, {sep}) IN
    IF n = Len(s) THEN <<s>>
    ELSE <<Take(s, n)>> \o split(Drop(s, n + 1), sep)

\* split_ascii_whitespace().last().unwrap_or_default()
last_word(s) ==
    LET t == trim_end_ascii_whitespace(s)
        n == Len(t) - SuffixLen(t, {c \in Range(t) : ~is_ascii_whitespace(c)})
    IN  Drop(t, n)

\* a nom result: what was parsed and what is left, or an error; a panic of
\* the parser is carried the same way and never recovered from
Ok(rest, val) == [ok |-> TRUE, panic |-> FALSE, rest |-> rest, val |-> val]
Err == [ok |-> FALSE, panic |-> FALSE, rest |-> <<>>, val |-> <<>>]
Panic == [ok |-> FALSE, panic |-> TRUE, rest |-> <<>>, val |-> <<>>]

\* Option: None, Some(x)
None == <<>>
Some(x) == <<x>>

COLON == ":"
TODO == <<"T", "O", "D", "O">>
DONE == <<"D", "O", "N", "E">>
COMMENT == <<"C", "O", "M", "M", "E", "N", "T">>

\* Context::default(): the keywords "TODO:DONE"
DefaultContext == TODO \o <<COLON>> \o DONE

(***************************************************************************)
(* parser/headline.rs: the title line                                      *)
(***************************************************************************)
parse_level(s) ==
    IF lex_level(s) = 0 THEN Err ELSE Ok(Drop(s, lex_level(s)), lex_level(s))

parse_keyword_token(s, keywords) ==
    LET token == Take(s, PrefixLenNot(s, Whitespace)) IN
    IF \E i \in 1..Len(keywords) : keywords[i] = token
    THEN Ok(Drop(s, Len(token)), token)
    ELSE Err

parse_keyword(s, context) ==
    parse_keyword_token(Drop(s, PrefixLen(s, {SP})), split(context, COLON))

\* a priority cookie with any ASCII letter
parse_priority_cookie_any_letter(s) ==
    IF Len(s) >= 4 /\ s[1] = "[" /\ s[2] = "#"
       /\ s[3] \in Uppercase \cup Lowercase /\ s[4] = "]"
    THEN Ok(Drop(s, 4), s[3])
    ELSE Err

parse_priority_cookie(s) ==
    IF Len(s) >= 4 /\ s[1] = "[" /\ s[2] = "#" /\ s[3] \in Uppercase /\ s[4] = "]"
    THEN Ok(Drop(s, 4), s[3])
    ELSE Err

parse_priority(s) == parse_priority_cookie(space0(s))

TagChars == {COLON, "#", "@", "%", "_"}

parse_tags_word(s, tail_space, maybe_tags) ==
    LET length == Len(maybe_tags)
        inner == SubSeq(maybe_tags, 2, length - 1)
    IN  IF length < 2 \/ maybe_tags[1] # COLON \/ maybe_tags[length] # COLON
        THEN Ok(s, <<>>)
        ELSE IF \E i \in 1..Len(inner) :
                    inner[i] \notin TagChars /\ ~is_alphanumeric(inner[i])
        THEN Ok(s, <<>>)
        ELSE Ok(Take(s, Len(s) - Len(inner) - 2 - tail_space), inner)

parse_tags(s) ==
    parse_tags_word(s, Len(s) - Len(trim_end_ascii_whitespace(s)), last_word(s))

(***************************************************************************)
(* parser/timestamp.rs                                                     *)
(***************************************************************************)
DigitSeq == <<"0", "1", "2", "3", "4", "5", "6", "7", "8", "9">>
DigitVal(c) == (CHOOSE i \in 1..10 : DigitSeq[i] = c) - 1

\* from_str_radix(num, 10)
RECURSIVE from_str_radix(_)
from_str_radix(ds) ==
    IF ds = <<>> THEN 0
    ELSE from_str_radix(Take(ds, Len(ds) - 1)) * 10 + DigitVal(ds[Len(ds)])

Min(a, b) == IF a <= b THEN a ELSE b

\* take_while_m_n(m, n, is_ascii_digit) mapped to a number
parse_integer_m_n(s, m, n) ==
    LET k == Min(PrefixLen(s, Digits), n) IN
    IF k < m THEN Err ELSE Ok(Drop(s, k), from_str_radix(Take(s, k)))

parse_integer_4(s) == parse_integer_m_n(s, 4, 4)
parse_integer_2(s) == parse_integer_m_n(s, 2, 2)
parse_integer_1_2(s) == parse_integer_m_n(s, 1, 2)

\* tag(t)
tag(s, t) == IF starts_with(s, t) THEN Ok(Drop(s, Len(t)), t) ELSE Err

\* space1: one or more spaces or tabs
space1(s) == IF PrefixLen(s, Spaces) = 0 THEN Err ELSE Ok(space0(s), <<>>)

parse_dayname(s) ==
    LET n == PrefixLenNot(s, Whitespace \cup {">", "]"})
        dayname == Take(s, n)
    IN  IF n = 0 THEN Err
        ELSE IF \E i \in 1..n : dayname[i] \in Digits \cup {"+", "-"} THEN Err
        ELSE Ok(Drop(s, n), dayname)

\* NaiveTime::from_hms_opt(hour, minute, 0)
Time_of(rh, rc, rm) ==
    IF ~rh.ok THEN rh
    ELSE IF ~rc.ok THEN rc
    ELSE IF ~rm.ok THEN rm
    ELSE IF rh.val >= 24 \/ rm.val >= 60 THEN Err
    ELSE Ok(rm.rest, [hour |-> rh.val, minute |-> rm.val])

Time_colon(rh, rc) ==
    Time_of(rh, rc, IF rc.ok THEN parse_integer_2(rc.rest) ELSE rc)

Time_hour(rh) == Time_colon(rh, IF rh.ok THEN tag(rh.rest, <<COLON>>) ELSE rh)

Time_parse(s) == Time_hour(parse_integer_1_2(s))

\* preceded(a, b) once a has been run: b's result on a's rest
preceded_Time(ra) == IF ra.ok THEN Time_parse(ra.rest) ELSE ra

TimeSpec_end(start, end) ==
    IF ~start.ok THEN start
    ELSE IF end.ok THEN Ok(end.rest, [start |-> start.val, end |-> Some(end.val)])
    ELSE Ok(start.rest, [start |-> start.val, end |-> None])

TimeSpec_start(start) ==
    TimeSpec_end(start,
                 IF start.ok THEN preceded_Time(tag(start.rest, <<"-">>))
                 ELSE start)

TimeSpec_parse(s) == TimeSpec_start(Time_parse(s))

RepeaterMark_parse(s) ==
    IF starts_with(s, <<"+", "+">>) THEN Ok(Drop(s, 2), "CatchUp")
    ELSE IF starts_with(s, <<"+">>) THEN Ok(Drop(s, 1), "Cumulate")
    ELSE IF starts_with(s, <<".", "+">>) THEN Ok(Drop(s, 2), "Restart")
    ELSE Err

DelayMark_parse(s) ==
    IF starts_with(s, <<"-", "-">>) THEN Ok(Drop(s, 2), "First")
    ELSE IF starts_with(s, <<"-">>) THEN Ok(Drop(s, 1), "All")
    ELSE Err

TimeUnits == {"h", "d", "w", "m", "y"}

Interval_value(s, n) ==
    IF n = 0 THEN Err
    ELSE IF Len(s) = n \/ s[n + 1] \notin TimeUnits THEN Err
    ELSE Ok(Drop(s, n + 1), [value |-> from_str_radix(Take(s, n)), unit |-> s[n + 1]])

Interval_parse(s) == Interval_value(s, PrefixLen(s, Digits))

Cookie_of(mark, interval) ==
    IF ~mark.ok THEN mark
    ELSE IF ~interval.ok THEN interval
    ELSE Ok(interval.rest, [mark |-> mark.val, interval |-> interval.val])

Cookie_mark(mark) ==
    Cookie_of(mark, IF mark.ok THEN Interval_parse(mark.rest) ELSE mark)

Repeater_parse(s) == Cookie_mark(RepeaterMark_parse(s))
Delay_parse(s) == Cookie_mark(DelayMark_parse(s))

\* preceded(space1, p) once p has been run on what follows the spaces
after_space1(s, r) == IF PrefixLen(s, Spaces) = 0 THEN Err ELSE r

RepeaterAndDelay_of(s, r, rd, d, dr, delay, repeater) ==
    IF r.ok /\ rd.ok
    THEN Ok(rd.rest, [repeater |-> Some(r.val), delay |-> Some(rd.val)])
    ELSE IF d.ok /\ dr.ok
    THEN Ok(dr.rest, [repeater |-> Some(dr.val), delay |-> Some(d.val)])
    ELSE IF delay.ok THEN Ok(delay.rest, [repeater |-> None, delay |-> Some(delay.val)])
    ELSE IF repeater.ok
    THEN Ok(repeater.rest, [repeater |-> Some(repeater.val), delay |-> None])
    ELSE Ok(s, [repeater |-> None, delay |-> None])

RepeaterAndDelay_first(s, r, d) ==
    RepeaterAndDelay_of(
        s, r,
        IF r.ok THEN after_space1(r.rest, Delay_parse(space0(r.rest))) ELSE r,
        d,
        IF d.ok THEN after_space1(d.rest, Repeater_parse(space0(d.rest))) ELSE d,
        d, r)

RepeaterAndDelay_parse(s) ==
    RepeaterAndDelay_first(s, Repeater_parse(s), Delay_parse(s))

is_leap_year(y) == (y % 4 = 0 /\ y % 100 # 0) \/ y % 400 = 0

DaysInMonth(y, m) ==
    IF m = 2 THEN (IF is_leap_year(y) THEN 29 ELSE 28)
    ELSE IF m \in {4, 6, 9, 11} THEN 30
    ELSE 31

ValidDate(y, m, d) == m \in 1..12 /\ d \in 1..DaysInMonth(y, m)

\* opt(preceded(space1, parse_dayname)), then NaiveDate::from_ymd, which
\* panics on a date that does not exist
Date_of(y, m, d, dayname) ==
    IF ~ValidDate(y, m, d.val) THEN Panic
    ELSE Ok(IF dayname.ok THEN dayname.rest ELSE d.rest,
            [year |-> y, month |-> m, day |-> d.val])

Date_day(y, m, d) ==
    IF ~d.ok THEN d
    ELSE Date_of(y, m, d, after_space1(d.rest, parse_dayname(space0(d.rest))))

preceded_integer_2(r) == IF r.ok THEN parse_integer_2(r.rest) ELSE r

Date_month(y, m) ==
    IF ~m.ok THEN m
    ELSE Date_day(y, m.val, preceded_integer_2(tag(m.rest, <<"-">>)))

Date_year(y) ==
    IF ~y.ok THEN y
    ELSE Date_month(y.val, preceded_integer_2(tag(y.rest, <<"-">>)))

Date_parse(s) == Date_year(parse_integer_4(s))

\* opt(is_not(">]\n"))
skip_junk(s) == Drop(s, PrefixLenNot(s, {">", "]", NL}))

HasCookie(rad) == rad.repeater # None \/ rad.delay # None

\* the repeater and delay after a space, or neither with no space
atomic_cookie(s, spaced, bare) ==
    IF PrefixLen(s, Spaces) > 0 /\ HasCookie(spaced.val) THEN spaced
    ELSE IF ~HasCookie(bare.val) THEN bare
    ELSE Err

atomic_close(active, date, time, cookie) ==
    LET s == IF cookie.ok THEN skip_junk(cookie.rest) ELSE <<>> IN
    IF ~cookie.ok THEN cookie
    ELSE IF s = <<>> \/ s[1] \notin {"]", ">"} THEN Err
    ELSE Ok(Drop(s, 1),
            [point |-> [active |-> active, date |-> date.val, cookie |-> cookie.val,
                        time |-> IF time.ok THEN Some(time.val.start) ELSE None],
             end |-> IF time.ok THEN time.val.end ELSE None])

atomic_time(active, date, time, s) ==
    atomic_close(active, date, time,
                 atomic_cookie(s, RepeaterAndDelay_parse(space0(s)),
                               RepeaterAndDelay_parse(s)))

atomic_date(active, date, time) ==
    IF ~date.ok THEN date
    ELSE atomic_time(active, date, time, IF time.ok THEN time.rest ELSE date.rest)

atomic_inner(active, date) ==
    atomic_date(active, date,
                IF date.ok THEN after_space1(date.rest, TimeSpec_parse(space0(date.rest)))
                ELSE date)

parse_atomic_timestamp(s) ==
    IF starts_with(s, <<"<">>) THEN atomic_inner(TRUE, Date_parse(Drop(s, 1)))
    ELSE IF starts_with(s, <<"[">>) THEN atomic_inner(FALSE, Date_parse(Drop(s, 1)))
    ELSE Err

Point_verified(r) ==
    IF ~r.ok THEN r
    ELSE IF r.val.end # None THEN Err
    ELSE Ok(r.rest, r.val.point)

Point_parse(s) == Point_verified(parse_atomic_timestamp(s))

Range_of(start, end) ==
    IF ~start.ok THEN start
    ELSE IF ~end.ok THEN end
    ELSE Ok(end.rest,
            [kind |-> "Range", start |-> start.val,
             end |-> [end.val EXCEPT !.active = start.val.active]])

Range_start(start) ==
    Range_of(start,
             IF start.ok /\ starts_with(start.rest, <<"-", "-">>)
             THEN Point_parse(Drop(start.rest, 2))
             ELSE IF start.ok THEN Err ELSE start)

Range_parse(s) == Range_start(Point_parse(s))

TimeRange_verified(r) ==
    IF ~r.ok THEN r
    ELSE IF r.val.end = None THEN Err
    ELSE Ok(r.rest, [kind |-> "TimeRange", start |-> r.val.point,
                     end_time |-> r.val.end[1]])

TimeRange_parse(s) == TimeRange_verified(parse_atomic_timestamp(s))

Diary_text(s, n) ==
    IF n = 0 \/ n = Len(s) \/ s[n + 1] # ">" THEN Err
    ELSE IF s[n] # ")" THEN Err
    ELSE Ok(Drop(s, n + 1), [kind |-> "Diary", text |-> Take(s, n - 1)])

Diary_parse(s) ==
    IF ~starts_with(s, <<"<", "%", "%", "(">>) THEN Err
    ELSE Diary_text(Drop(s, 4), PrefixLenNot(Drop(s, 4), {NL, ">"}))

Timestamp_Point(r) ==
    IF r.ok THEN Ok(r.rest, [kind |-> "Point", point |-> r.val]) ELSE r

\* alt: the first alternative that does not fail with an error
Timestamp_alt(diary, range, time_range, point) ==
    IF diary.ok \/ diary.panic THEN diary
    ELSE IF range.ok \/ range.panic THEN range
    ELSE IF time_range.ok \/ time_range.panic THEN time_range
    ELSE Timestamp_Point(point)

Timestamp_parse(s) ==
    Timestamp_alt(Diary_parse(s), Range_parse(s), TimeRange_parse(s), Point_parse(s))

(***************************************************************************)
(* headline/timestamp.rs: Display of the timestamp values                  *)
(***************************************************************************)
\* `{}` of an unsigned integer
RECURSIVE to_string(_)
to_string(n) ==
    IF n < 10 THEN <<DigitSeq[n + 1]>>
    ELSE to_string(n \div 10) \o <<DigitSeq[(n % 10) + 1]>>

RECURSIVE pad_zero(_, _)
pad_zero(ds, width) == IF Len(ds) >= width THEN ds ELSE pad_zero(<<"0">> \o ds, width)

\* chrono's %Y: four digits, zero-padded; a year outside 0..9999 is written
\* with its sign
format_Y(y) ==
    IF y \in 0..9999 THEN pad_zero(to_string(y), 4)
    ELSE IF y < 0 THEN <<"-">> \o pad_zero(to_string(0 - y), 4)
    ELSE <<"+">> \o pad_zero(to_string(y), 4)

\* Display for Time: %H:%M
Time_fmt(time) ==
    pad_zero(to_string(time.hour), 2) \o <<COLON>> \o pad_zero(to_string(time.minute), 2)

\* Display for Date: %Y-%m-%d
Date_fmt(date) ==
    format_Y(date.year) \o <<"-">> \o pad_zero(to_string(date.month), 2)
        \o <<"-">> \o pad_zero(to_string(date.day), 2)

Interval_fmt(interval) == to_string(interval.value) \o <<interval.unit>>

RepeaterMark_as_ref(mark) ==
    IF mark = "CatchUp" THEN <<"+", "+">>
    ELSE IF mark = "Cumulate" THEN <<"+">>
    ELSE <<".", "+">>

DelayMark_as_ref(mark) == IF mark = "All" THEN <<"-">> ELSE <<"-", "-">>

Repeater_fmt(r) == RepeaterMark_as_ref(r.mark) \o Interval_fmt(r.interval)
Delay_fmt(d) == DelayMark_as_ref(d.mark) \o Interval_fmt(d.interval)

RepeaterAndDelay_fmt(rad) ==
    IF rad.repeater # None /\ rad.delay # None
    THEN Repeater_fmt(rad.repeater[1]) \o <<SP>> \o Delay_fmt(rad.delay[1])
    ELSE IF rad.repeater # None THEN Repeater_fmt(rad.repeater[1])
    ELSE IF rad.delay # None THEN Delay_fmt(rad.delay[1])
    ELSE <<>>

RepeaterAndDelay_default == [repeater |-> None, delay |-> None]

\* Activity::delimiters
delimiters(active) == IF active THEN <<"<", ">">> ELSE <<"[", "]">>

Diary_fmt(diary) == <<"<", "%", "%", "(">> \o diary.text \o <<")", ">">>

\* the optional cookie of a point, after a space
cookie_fmt(cookie) ==
    IF cookie # RepeaterAndDelay_default THEN <<SP>> \o RepeaterAndDelay_fmt(cookie)
    ELSE <<>>

Point_fmt(point) ==
    <<delimiters(point.active)[1]>> \o Date_fmt(point.date)
        \o (IF point.time # None THEN <<SP>> \o Time_fmt(point.time[1]) ELSE <<>>)
        \o cookie_fmt(point.cookie)
        \o <<delimiters(point.active)[2]>>

Range_fmt(range) == Point_fmt(range.start) \o <<"-", "-">> \o Point_fmt(range.end)

\* the start time is expected: a time range whose start has none panics
TimeRange_fmt(tr) ==
    <<delimiters(tr.start.active)[1]>> \o Date_fmt(tr.start.date)
        \o <<SP>> \o Time_fmt(tr.start.time[1]) \o <<"-">> \o Time_fmt(tr.end_time)
        \o cookie_fmt(tr.start.cookie)
        \o <<delimiters(tr.start.active)[2]>>

Timestamp_fmt(t) ==
    IF t.kind = "Point" THEN Point_fmt(t.point)
    ELSE IF t.kind = "Range" THEN Range_fmt(t)
    ELSE IF t.kind = "TimeRange" THEN TimeRange_fmt(t)
    ELSE Diary_fmt(t)

(***************************************************************************)
(* parser/headline.rs: the planning line and the headline                  *)
(***************************************************************************)
DEADLINE == <<"D", "E", "A", "D", "L", "I", "N", "E">>
SCHEDULED == <<"S", "C", "H", "E", "D", "U", "L", "E", "D">>
CLOSED == <<"C", "L", "O", "S", "E", "D">>

\* the rest starts at the ':' that follows the keyword
parse_planning_keyword(s) ==
    IF starts_with(s, DEADLINE \o <<COLON>>) THEN Ok(Drop(s, 8), "Deadline")
    ELSE IF starts_with(s, SCHEDULED \o <<COLON>>) THEN Ok(Drop(s, 9), "Scheduled")
    ELSE IF starts_with(s, CLOSED \o <<COLON>>) THEN Ok(Drop(s, 6), "Closed")
    ELSE Err

info_pattern_of(keyword, timestamp) ==
    IF ~timestamp.ok THEN timestamp
    ELSE Ok(timestamp.rest, [keyword |-> keyword.val, timestamp |-> timestamp.val])

\* separated_pair(parse_planning_keyword, pair(char(':'), space0), Timestamp::parse)
info_pattern_keyword(keyword) ==
    IF ~keyword.ok THEN keyword
    ELSE info_pattern_of(keyword, Timestamp_parse(space0(Drop(keyword.rest, 1))))

parse_info_pattern(s) == info_pattern_keyword(parse_planning_keyword(s))

NoPlanning == [deadline |-> None, scheduled |-> None, closed |-> None]

\* in case of duplicates, keep the final
with_info(planning, info) ==
    IF info.keyword = "Closed" THEN [planning EXCEPT !.closed = Some(info.timestamp)]
    ELSE IF info.keyword = "Scheduled"
    THEN [planning EXCEPT !.scheduled = Some(info.timestamp)]
    ELSE [planning EXCEPT !.deadline = Some(info.timestamp)]

\* many0(terminated(parse_info_pattern, space0)) folded into the planning:
\* what is left of the line after the last pair is not looked at
RECURSIVE planning_infos(_, _, _)
planning_next(info, planning, count) ==
    IF info.panic THEN [res |-> "panic", planning |-> NoPlanning]
    ELSE IF info.ok
    THEN planning_infos(space0(info.rest), with_info(planning, info.val), count + 1)
    ELSE IF count = 0 THEN [res |-> "None", planning |-> NoPlanning]
    ELSE [res |-> "Some", planning |-> planning]

planning_infos(s, planning, count) ==
    planning_next(parse_info_pattern(s), planning, count)

parse_planning_line(s) == planning_infos(space0(s), NoPlanning, 0)

\* the line up to its '\n' or the end of the input, and what follows the '\n'
consuming_line_at(s, i) == [line |-> Take(s, i), rest |-> Drop(s, i + 1)]

consuming_line(s) == consuming_line_at(s, next_line(s, 0))

HeadlinePod(level, commented, keyword, priority, title, raw_tags, planning, body) ==
    [level |-> level, commented |-> commented, keyword |-> keyword,
     priority |-> priority, title |-> title, raw_tags_string |-> raw_tags,
     raw_tags_rope |-> raw_tags, planning |-> planning, body |-> body]

\* a title that starts with COMMENT and then a whitespace, or is COMMENT
is_commented(title) ==
    starts_with(title, COMMENT) /\ (Len(title) = 7 \/ is_whitespace(title[8]))

headline_planned(level, keyword, priority, title, tags, body, rest, pl) ==
    IF pl.res = "panic" THEN [res |-> "panic", headline |-> None]
    ELSE [res |-> "Some",
          headline |->
              Some(HeadlinePod(level, is_commented(title), keyword, priority,
                               IF is_commented(title) THEN trim_start(Drop(title, 7))
                               ELSE title,
                               tags,
                               pl.planning,
                               IF pl.res = "Some" THEN rest ELSE body))]

headline_body(level, keyword, priority, title, tags, body, first) ==
    headline_planned(level, keyword, priority, title, tags, body, first.rest,
                     parse_planning_line(first.line))

headline_tags(level, keyword, priority, tg, body) ==
    headline_body(level, keyword, priority, trim(tg.rest), tg.val, body,
                  consuming_line(body))

headline_priority(level, keyword, s, pr, body) ==
    headline_tags(level, keyword, IF pr.ok THEN Some(pr.val) ELSE None,
                  parse_tags(IF pr.ok THEN pr.rest ELSE s), body)

headline_keyword(level, s, kw, body) ==
    headline_priority(level, IF kw.ok THEN Some(kw.val) ELSE None,
                      IF kw.ok THEN kw.rest ELSE s,
                      parse_priority(IF kw.ok THEN kw.rest ELSE s), body)

headline_level_parsed(lv, body, context) ==
    IF ~lv.ok THEN [res |-> "None", headline |-> None]
    ELSE headline_keyword(lv.val, lv.rest, parse_keyword(lv.rest, context), body)

headline_lines(first, context) ==
    headline_level_parsed(parse_level(first.line), first.rest, context)

parse_headline(s, context) == headline_lines(consuming_line(s), context)

(***************************************************************************)
(* headline/parser.rs, headline/builder.rs, headline/value.rs              *)
(***************************************************************************)
\* HeadlinePod::default(): level 1 and nothing else
DefaultPod == HeadlinePod(1, FALSE, None, None, <<>>, <<>>, NoPlanning, <<>>)

\* the class [\w@#%:] of TAG_VALIDATION_RE
TagValidationClass(c) == is_alphanumeric(c) \/ c \in {"_", "@", "#", "%", COLON}

\* Regex::is_match of "[\w@#%:]*": some substring of s, the empty one
\* included, is a run of the class
TAG_VALIDATION_RE_is_match(s) ==
    \E i \in 0..Len(s) : \E j \in i..Len(s) :
        \A k \in (i + 1)..j : TagValidationClass(s[k])

\* Regex::is_match with both ends anchored: the whole of s is a run of the class
TAG_VALIDATION_RE_full_match(s) ==
    \A k \in 1..Len(s) : TagValidationClass(s[k])

keyword_in_context(keyword, keywords) ==
    \E i \in 1..Len(keywords) : keywords[i] = keyword

validate_partially(b, context) ==
    IF b.level = 0 THEN "InvalidLevelError"
    ELSE IF b.priority # None /\ ~is_ascii_uppercase(b.priority[1])
    THEN "InvalidPriorityError"
    ELSE IF b.raw_tags_string # <<>> /\ ~TAG_VALIDATION_RE_is_match(b.raw_tags_string)
    THEN "InvalidTagsError"
    ELSE IF b.keyword # None /\ ~keyword_in_context(b.keyword[1], split(context, COLON))
    THEN "InvalidKeywordError"
    ELSE IF contains_headline(b.body) THEN "InvalidBodyError"
    ELSE "Ok"

HeadlinePod_to_rope(b) ==
    Stars(b.level) \o <<SP>>
    \o (IF b.keyword # None THEN b.keyword[1] \o <<SP>> ELSE <<>>)
    \o (IF b.priority # None THEN <<"[", "#", b.priority[1], "]", SP>> ELSE <<>>)
    \o (IF b.commented
        THEN (IF b.title = <<>> THEN COMMENT ELSE COMMENT \o <<SP>>)
        ELSE <<>>)
    \o b.title
    \o (IF b.raw_tags_string # <<>>
        THEN <<SP, COLON>> \o b.raw_tags_rope \o <<COLON>>
        ELSE <<>>)
    \o (IF b.body # <<>> THEN <<NL>> \o b.body ELSE <<>>)

to_rope_validated(b, res) ==
    [res |-> res, rope |-> IF res = "Ok" THEN HeadlinePod_to_rope(b) ELSE <<>>]

HeadlineBuilder_to_rope(b, context) ==
    to_rope_validated(b, validate_partially(b, context))

\* Headline::to_builder: the same fields
to_builder(h) == h

\* headline() without the comparison of the re-parse with the builder
headline_reparsed_unchecked(b, parsed) ==
    IF parsed.res = "panic" THEN [res |-> "panic", headline |-> None]
    ELSE [res |-> "Ok", headline |-> Some(b)]

headline_reparsed(b, parsed) ==
    IF parsed.res = "panic" THEN [res |-> "panic", headline |-> None]
    ELSE IF to_builder(parsed.headline[1]) # b
    THEN [res |-> "NonEquivalentReparseError", headline |-> None]
    ELSE [res |-> "Ok", headline |-> Some(b)]

headline_emitted(b, context, emitted) ==
    IF emitted.res # "Ok" THEN [res |-> emitted.res, headline |-> None]
    ELSE headline_reparsed(b, parse_headline(emitted.rope, context))

HeadlineBuilder_headline(b, context) ==
    headline_emitted(b, context, HeadlineBuilder_to_rope(b, context))

\* Headline::tags: the non-empty components of the raw tags, none when the
\* raw tags are empty
Headline_tags(h) ==
    IF h.raw_tags_string = <<>> THEN <<>>
    ELSE SelectSeq(split(h.raw_tags_string, COLON), LAMBDA t : t # <<>>)

Headline_has_tag(h, needle) ==
    \E i \in 1..Len(Headline_tags(h)) : Headline_tags(h)[i] = needle

HeadlineBuilder_has_tag(b, t) ==
    \E i \in 1..Len(split(b.raw_tags_string, COLON)) :
        split(b.raw_tags_string, COLON)[i] = t

(***************************************************************************)
(* The state machine: one arena, the documents parsed into it, the         *)
(* sections the caller holds, and the last call with what it returned.     *)
(***************************************************************************)
Headline(n) == Stars(n) \o <<SP, "a">>
Lines(a, b) == a \o <<NL>> \o b

\* the texts the calls of Spec are given
Texts ==
    {<<>>, <<"a">>, Headline(1), Headline(2), Headline(3),
     Lines(Headline(1), Headline(2)), Lines(Headline(1), Headline(1)),
     Lines(<<"a">>, Headline(1)),
     Lines(Lines(Headline(3), Headline(1)), Headline(2)),
     <<NL>>}

Levels == 0..MaxLevel

NoOut == [doc |-> 0, rope |-> <<>>]

\* a call as the caller sees it: its name and arguments, what it returned,
\* and the arena it was made on
Call(name, self, arg, level, text, r, pre) ==
    [name |-> name, self |-> self, arg |-> arg, level |-> level,
     text |-> text, res |-> r.res, ret |-> r.ret, pre |-> pre]

InitOp ==
    Call("init", 0, 0, 0, <<>>, Result(EmptyArena, "ok", 0, FALSE), EmptyArena)

Succeeded(res) == res \in {"ok", "Some"}

Init ==
    /\ arena = EmptyArena
    /\ docs = <<>>
    /\ handles = {}
    /\ op = InitOp
    /\ panicked = FALSE
    /\ ok_so_far = TRUE
    /\ nops = 0
    /\ input = <<>>
    /\ out = NoOut

\* a call that leaves r, giving the caller the sections in got
Step(name, self, arg, level, text, r, got) ==
    /\ ~panicked
    /\ nops < MaxOps
    /\ NumNodes(r.arena) <= MaxNodes
    /\ arena' = r.arena
    /\ panicked' = r.panic
    /\ op' = Call(name, self, arg, level, text, r, arena)
    /\ ok_so_far' = (ok_so_far /\ Succeeded(r.res))
    /\ nops' = nops + 1
    /\ handles' = handles \cup got
    /\ UNCHANGED input

\* the sections of r.arena that arena did not hold
Fresh(r) == (NumNodes(arena) + 1)..NumNodes(r.arena)

Parsed(s, r) ==
    /\ Step("parse_str", 0, 0, 0, s,
            Result(r.arena, IF r.panic THEN "panic" ELSE "ok", r.doc.root, r.panic),
            Fresh(r))
    /\ docs' = Append(docs, r.doc)
    /\ UNCHANGED out

ParseStr(s) == Parsed(s, parse_document(arena, s))

Returned(name, h, s, r, got) ==
    /\ Step(name, h, 0, 0, s, r, got)
    /\ UNCHANGED <<docs, out>>

NewSectionOf(s, r) ==
    Returned("new_section", 0, s, r, IF r.res = "Some" THEN Fresh(r) ELSE {})

NewSection(s) == NewSectionOf(s, new_section(arena, s))

ToRope(d) ==
    /\ Step("to_rope", 0, d, 0, <<>>, Result(arena, "ok", 0, FALSE), {})
    /\ out' = [doc |-> d, rope |-> Document_to_rope(arena, docs[d])]
    /\ UNCHANGED docs

Append_(p, n) ==
    /\ Step("append", p, n, 0, <<>>, Section_append(arena, p, n), {})
    /\ UNCHANGED <<docs, out>>

Prepend(p, n) ==
    /\ Step("prepend", p, n, 0, <<>>, Section_prepend(arena, p, n), {})
    /\ UNCHANGED <<docs, out>>

InsertAfter(sib, n) ==
    /\ Step("insert_after", sib, n, 0, <<>>,
            Section_insert_after(arena, sib, n), {})
    /\ UNCHANGED <<docs, out>>

InsertBefore(sib, n) ==
    /\ Step("insert_before", sib, n, 0, <<>>,
            Section_insert_before(arena, sib, n), {})
    /\ UNCHANGED <<docs, out>>

CheckedAppend(p, n) ==
    /\ Step("checked_append", p, n, 0, <<>>,
            Section_checked_append(arena, p, n), {})
    /\ UNCHANGED <<docs, out>>

CheckedPrepend(p, n) ==
    /\ Step("checked_prepend", p, n, 0, <<>>,
            Section_checked_prepend(arena, p, n), {})
    /\ UNCHANGED <<docs, out>>

CheckedInsertAfter(sib, n) ==
    /\ Step("checked_insert_after", sib, n, 0, <<>>,
            Section_checked_insert_after(arena, sib, n), {})
    /\ UNCHANGED <<docs, out>>

CheckedInsertBefore(sib, n) ==
    /\ Step("checked_insert_before", sib, n, 0, <<>>,
            Section_checked_insert_before(arena, sib, n), {})
    /\ UNCHANGED <<docs, out>>

RemoveSubtree(h) ==
    /\ Step("remove_subtree", h, 0, 0, <<>>, Section_remove_subtree(arena, h), {})
    /\ UNCHANGED <<docs, out>>

ReplaceWithChildren(h) ==
    /\ Step("replace_with_children", h, 0, 0, <<>>,
            Section_replace_with_children(arena, h), {})
    /\ UNCHANGED <<docs, out>>

RemoveChildren(h) ==
    /\ Step("remove_children", h, 0, 0, <<>>,
            Section_remove_children(arena, h), {})
    /\ UNCHANGED <<docs, out>>

CloneSection(h) ==
    Returned("clone_section", h, <<>>,
             Result(clone_section(arena, h), "ok", NumNodes(arena) + 1, FALSE),
             {NumNodes(arena) + 1})

CloneSubtreeOf(h, r) == Returned("clone_subtree", h, <<>>, r, Fresh(r))

CloneSubtree(h) == CloneSubtreeOf(h, Section_clone_subtree(arena, h))

SetLevel(h, level) ==
    /\ Step("set_level", h, 0, level, <<>>, Section_set_level(arena, h, level), {})
    /\ UNCHANGED <<docs, out>>

SetRaw(h, raw) ==
    /\ Step("set_raw", h, 0, 0, raw, Section_set_raw(arena, h, raw), {})
    /\ UNCHANGED <<docs, out>>

Next ==
    \/ \E s \in Texts : ParseStr(s)
    \/ \E s \in Texts : NewSection(s)
    \/ \E d \in DOMAIN docs : ToRope(d)
    \/ \E p, n \in handles : Append_(p, n)
    \/ \E p, n \in handles : Prepend(p, n)
    \/ \E sib, n \in handles : InsertAfter(sib, n)
    \/ \E sib, n \in handles : InsertBefore(sib, n)
    \/ \E p, n \in handles : CheckedAppend(p, n)
    \/ \E p, n \in handles : CheckedPrepend(p, n)
    \/ \E sib, n \in handles : CheckedInsertAfter(sib, n)
    \/ \E sib, n \in handles : CheckedInsertBefore(sib, n)
    \/ \E h \in handles : RemoveSubtree(h)
    \/ \E h \in handles : ReplaceWithChildren(h)
    \/ \E h \in handles : RemoveChildren(h)
    \/ \E h \in handles : CloneSection(h)
    \/ \E h \in handles : CloneSubtree(h)
    \/ \E h \in handles, level \in Levels : SetLevel(h, level)
    \/ \E h \in handles, raw \in Texts : SetRaw(h, raw)

Spec == Init /\ [][Next]_vars

(***************************************************************************)
(* The parser and new_section on every input of up to MaxLen bytes, and on *)
(* the inputs of three headlines of every level up to MaxLevel: one call   *)
(* on a fresh arena, then the emission of what it parsed.                  *)
(***************************************************************************)
\* three headlines without a title, with and without a terminal newline
ThreeHeadlines ==
    {Lines(Lines(Stars(a) \o <<SP>>, Stars(b) \o <<SP>>), Stars(c) \o <<SP>>) \o nl :
        a \in 1..MaxLevel, b \in 1..MaxLevel, c \in 1..MaxLevel, nl \in {<<>>, <<NL>>}}

ParseInputs == Strings \cup ThreeHeadlines

InitParse ==
    /\ arena = EmptyArena
    /\ docs = <<>>
    /\ handles = {}
    /\ op = InitOp
    /\ panicked = FALSE
    /\ ok_so_far = TRUE
    /\ nops = 0
    /\ input \in ParseInputs
    /\ out = NoOut

ParseInput == nops = 0 /\ ParseStr(input)

NewSectionInput == nops = 0 /\ NewSection(input)

EmitParsed == op.name = "parse_str" /\ ToRope(1)

\* set_raw of the input on a section of the document parsed from it
SetRawInput == nops = 1 /\ op.name = "parse_str" /\ \E h \in handles : SetRaw(h, input)

NextParse == ParseInput \/ NewSectionInput \/ EmitParsed \/ SetRawInput

SpecParse == InitParse /\ [][NextParse]_vars

(***************************************************************************)
(* The headline parser on section texts: parse_headline on a text, then    *)
(* to_builder().headline() on what it returned.                            *)
(***************************************************************************)
MaxTokens == 3

RECURSIVE Concat(_)
Concat(ss) == IF ss = <<>> THEN <<>> ELSE Head(ss) \o Concat(Tail(ss))

OPEN_A == "<"
CLOSE_A == ">"
OPEN_I == "["
CLOSE_I == "]"
DASH == "-"

\* timestamps: an active and an inactive date, and a date that does not exist
Aug28 == <<OPEN_A, "2", "0", "2", "2", DASH, "0", "8", DASH, "2", "8", CLOSE_A>>
Aug29 == <<OPEN_I, "2", "0", "2", "2", DASH, "0", "8", DASH, "2", "9", CLOSE_I>>
Feb30 == <<OPEN_A, "2", "0", "2", "2", DASH, "0", "2", DASH, "3", "0", CLOSE_A>>

CookieA == <<"[", "#", "A", "]">>
TagA == <<COLON, "a", COLON>>
TagAB == <<COLON, "a", COLON, "b", COLON>>

\* the pieces gibberish is made of
Tokens ==
    {<<SP>>, <<NL>>, <<TAB>>, <<NBSP>>, <<COLON>>, <<"[">>, <<"A">>, <<HAN>>,
     TODO \o <<SP>>, COMMENT \o <<SP>>, CookieA \o <<SP>>,
     <<SP>> \o TagA \o <<SP>>, <<SP>> \o TagAB, <<NL, NL>>}

RECURSIVE TokenStrings(_)
TokenStrings(n) ==
    IF n = 0 THEN {<<>>}
    ELSE TokenStrings(n - 1) \cup
         {s \o t : s \in TokenStrings(n - 1), t \in Tokens}

GibberishTexts == {Stars(1) \o <<SP>> \o s : s \in TokenStrings(MaxTokens)}

\* the components of a title line, in the order of the line
FormKeywords == {None, Some(TODO)}
FormPriorities == {None, Some("A")}
FormTags == {None, Some(<<>>), Some(<<"a">>), Some(<<"a", COLON, "b">>)}
FormTitles ==
    {<<>>, <<"x">>, <<"x", SP, "y">>, <<"x", TAB, HAN>>, <<"x", NBSP, "y">>,
     <<SP, "x">>, <<"x", SP>>, <<TAB, "x">>, <<NBSP, "x">>, <<"x", NBSP>>,
     <<SP>> \o TODO \o <<SP, "x">>,
     TODO \o <<"x">>, DONE, CookieA \o <<"x">>, <<"[", "#", "a", "]", SP, "x">>,
     COMMENT, COMMENT \o <<"x">>, COMMENT \o <<SP, "x">>,
     <<"x", SP>> \o TagA, TagA, <<"x">> \o TagA, <<"x", SP, COLON>>}

Forms ==
    [level : 1..2, keyword : FormKeywords, priority : FormPriorities,
     commented : BOOLEAN, title : FormTitles, tags : FormTags]

FormText(f) ==
    Stars(f.level) \o <<SP>>
    \o (IF f.keyword # None THEN f.keyword[1] \o <<SP>> ELSE <<>>)
    \o (IF f.priority # None THEN <<"[", "#", f.priority[1], "]", SP>> ELSE <<>>)
    \o (IF f.commented THEN COMMENT \o <<SP>> ELSE <<>>)
    \o f.title
    \o (IF f.tags # None THEN <<SP, COLON>> \o f.tags[1] \o <<COLON>> ELSE <<>>)

FormTexts == {FormText(f) : f \in Forms}

\* title lines whose components are out of order, with the part of the line
\* that is out of order
OrderCases ==
    {[text |-> Stars(1) \o <<SP>> \o CookieA \o <<SP>> \o TODO \o <<SP, "x">>,
      title |-> TODO \o <<SP, "x">>],
     [text |-> Stars(1) \o <<SP>> \o COMMENT \o <<SP>> \o TODO \o <<SP, "x">>,
      title |-> TODO \o <<SP, "x">>],
     [text |-> Stars(1) \o <<SP>> \o COMMENT \o <<SP>> \o CookieA \o <<SP, "x">>,
      title |-> CookieA \o <<SP, "x">>],
     [text |-> Stars(1) \o <<SP>> \o TagA \o <<SP, "x">>,
      title |-> TagA \o <<SP, "x">>],
     [text |-> Stars(1) \o <<SP, "x", SP>> \o CookieA,
      title |-> <<"x", SP>> \o CookieA],
     [text |-> Stars(1) \o <<SP, "x", SP>> \o TODO,
      title |-> <<"x", SP>> \o TODO]}

OrderTexts == {c.text : c \in OrderCases}

\* planning lines: pairs of a keyword and a timestamp
PlanningKeywords == {DEADLINE, SCHEDULED, CLOSED}
PlanningTimestamps == {Aug28, Aug29, Feb30}
PlanningGaps == {<<>>, <<SP>>, <<TAB>>}

Pairs == [keyword : PlanningKeywords, gap : {<<>>, <<SP>>}, timestamp : PlanningTimestamps]

PairText(p) == p.keyword \o <<COLON>> \o p.gap \o p.timestamp

PairLines ==
    {[pre |-> pre, pairs |-> <<p>>, post |-> post] :
        pre \in PlanningGaps, p \in Pairs, post \in PlanningGaps}
    \cup
    {[pre |-> <<>>, pairs |-> <<p, q>>, sep |-> sep, post |-> <<>>] :
        p \in Pairs, q \in Pairs, sep \in PlanningGaps}

PairLineText(l) ==
    l.pre
    \o (IF Len(l.pairs) = 1 THEN PairText(l.pairs[1])
        ELSE PairText(l.pairs[1]) \o l.sep \o PairText(l.pairs[2]))
    \o l.post

\* lines that do not start with a pair
OtherLines ==
    {<<>>, <<SP>>, <<"x">>, DEADLINE \o <<SP>> \o Aug28,
     <<"x", SP>> \o DEADLINE \o <<COLON, SP>> \o Aug28,
     DEADLINE \o <<COLON, SP, "x">>,
     <<NBSP>> \o DEADLINE \o <<COLON, SP>> \o Aug28,
     DEADLINE \o <<COLON, SP, OPEN_A, "x", CLOSE_A>>}

\* a pair and then something that is none
JunkLines ==
    {DEADLINE \o <<COLON, SP>> \o Aug28 \o <<SP, "x">>,
     DEADLINE \o <<COLON, SP>> \o Aug28 \o <<SP>> \o CLOSED \o <<COLON, SP, "x">>}

Bodies == {None, Some(<<>>), Some(<<"b">>), Some(<<"b", NL, NL>>)}

WithBody(line, body) ==
    Headline(1) \o <<NL>> \o line
    \o (IF body # None THEN <<NL>> \o body[1] ELSE <<>>)

PlanningTexts ==
    {WithBody(line, body) :
        line \in {PairLineText(l) : l \in PairLines} \cup OtherLines \cup JunkLines,
        body \in Bodies}

\* a section text: a headline line, and no headline line after it
IsSectionText(t) ==
    lex_level(t) > 0 /\ ~contains_headline(Drop(t, lex_level(t)))

HeadlineTexts ==
    {t \in GibberishTexts \cup FormTexts \cup OrderTexts \cup PlanningTexts :
        IsSectionText(t)}

HeadlineOut(builder, headline, rope, found) ==
    [builder |-> builder, headline |-> headline, rope |-> rope, found |-> found]

NoHeadlineOut == HeadlineOut(DefaultPod, None, <<>>, FALSE)

HeadlineCall(name, text, res) ==
    [name |-> name, self |-> 0, arg |-> 0, level |-> 0, text |-> text,
     res |-> res, ret |-> 0, pre |-> EmptyArena]

InitHeadline ==
    /\ arena = EmptyArena
    /\ docs = <<>>
    /\ handles = {}
    /\ op = InitOp
    /\ panicked = FALSE
    /\ ok_so_far = TRUE
    /\ nops = 0
    /\ input \in HeadlineTexts
    /\ out = NoHeadlineOut

\* a call of the headline layer: it leaves the arena alone; nops counts the
\* calls that return something, not the setters of a builder
HeadlineStep(name, text, res, o) ==
    /\ ~panicked
    /\ op' = HeadlineCall(name, text, res)
    /\ out' = o
    /\ panicked' = (res = "panic")
    /\ ok_so_far' = (ok_so_far /\ res \in {"Ok", "Some", "true", "false"})
    /\ nops' = IF name = "builder" THEN nops ELSE nops + 1
    /\ UNCHANGED <<arena, docs, handles, input>>

ParsedHeadline(r) ==
    HeadlineStep("parse_headline", input, r.res,
                 HeadlineOut(DefaultPod, r.headline, <<>>, FALSE))

\* parse_valid_single_headline(text, context) of a section of level >= 1
ParseHeadline == nops = 0 /\ ParsedHeadline(parse_headline(input, DefaultContext))

BuiltHeadline(b, r) ==
    HeadlineStep("headline", input, r.res, HeadlineOut(b, r.headline, <<>>, FALSE))

\* h.to_builder().headline(context) on the headline parsed
RebuildHeadline ==
    /\ op.name = "parse_headline"
    /\ op.res = "Some"
    /\ BuiltHeadline(to_builder(out.headline[1]),
                     HeadlineBuilder_headline(to_builder(out.headline[1]), DefaultContext))

\* h.to_rope() on the headline parsed
EmitHeadline ==
    /\ op.name = "parse_headline"
    /\ op.res = "Some"
    /\ HeadlineStep("to_rope", input, "Ok",
                    HeadlineOut(out.headline[1], out.headline,
                                HeadlinePod_to_rope(out.headline[1]), FALSE))

NextHeadline == ParseHeadline \/ RebuildHeadline \/ EmitHeadline

SpecHeadline == InitHeadline /\ [][NextHeadline]_vars

(***************************************************************************)
(* The headline builder: a default builder, its setters, and then one of   *)
(* validate_partially, to_rope, headline and has_tag.                      *)
(***************************************************************************)
POTATO == <<"P", "O", "T", "A", "T", "O">>

BuilderLevels == {0, 1, 2}
BuilderKeywords == {None, Some(TODO), Some(POTATO)}
BuilderPriorities == {None, Some("A"), Some("a")}
BuilderTitles ==
    {<<>>, <<"x">>, TODO \o <<SP, "x">>, CookieA \o <<SP, "x">>, COMMENT,
     <<"x", SP>> \o TagA, <<"x", NL, "y">>}
BuilderTags == {<<>>, <<"a">>, <<"a", COLON, COLON, "b">>, <<"+">>, <<"a", SP>>, <<SNOWMAN>>}
BuilderBodies ==
    {<<>>, <<"b">>, <<STAR, SP>>, <<SP, STAR, SP>>, <<STAR, "b">>,
     <<"b", NL, STAR, STAR, SP, "c">>,
     DEADLINE \o <<COLON, SP>> \o Aug28,
     DEADLINE \o <<COLON, SP>> \o Feb30}
Needles == {<<>>, <<"a">>, <<"b">>}

\* a text with a planning line, for a builder that has a planning
PlannedText == Lines(Headline(1), CLOSED \o <<COLON, SP>> \o Aug29)

InitBuilder ==
    /\ arena = EmptyArena
    /\ docs = <<>>
    /\ handles = {}
    /\ op = InitOp
    /\ panicked = FALSE
    /\ ok_so_far = TRUE
    /\ nops = 0
    /\ input = <<>>
    /\ out = NoHeadlineOut

Building == op.name \in {"init", "builder"}

\* a setter of the builder
Set(b) ==
    /\ Building
    /\ HeadlineStep("builder", <<>>, "Ok", HeadlineOut(b, None, <<>>, FALSE))

Builder_level(level) == Set([out.builder EXCEPT !.level = level])
Builder_keyword(keyword) == Set([out.builder EXCEPT !.keyword = keyword])
Builder_priority(priority) == Set([out.builder EXCEPT !.priority = priority])
Builder_commented(commented) == Set([out.builder EXCEPT !.commented = commented])
Builder_title(title) == Set([out.builder EXCEPT !.title = title])
Builder_body(body) == Set([out.builder EXCEPT !.body = body])

set_raw_tags_string(b, raw_tags) ==
    IF raw_tags # b.raw_tags_string
    THEN [b EXCEPT !.raw_tags_string = raw_tags, !.raw_tags_rope = raw_tags]
    ELSE b

Builder_set_raw_tags_string(raw_tags) ==
    Set(set_raw_tags_string(out.builder, raw_tags))

\* parse_headline(text).to_builder(): the only way to a builder with a planning
Builder_from_parsed(r) == r.res = "Some" /\ Set(to_builder(r.headline[1]))

ToBuilder == op.name = "init" /\ Builder_from_parsed(parse_headline(PlannedText, DefaultContext))

ValidatePartially ==
    /\ Building
    /\ HeadlineStep("validate_partially", <<>>,
                    validate_partially(out.builder, DefaultContext),
                    HeadlineOut(out.builder, None, <<>>, FALSE))

BuilderEmitted(r) ==
    HeadlineStep("to_rope", <<>>, r.res, HeadlineOut(out.builder, None, r.rope, FALSE))

BuilderToRope == Building /\ BuilderEmitted(HeadlineBuilder_to_rope(out.builder, DefaultContext))

BuilderHeadline ==
    /\ Building
    /\ BuiltHeadline(out.builder, HeadlineBuilder_headline(out.builder, DefaultContext))

HasTagStep(name, t, found) ==
    HeadlineStep(name, t, IF found THEN "true" ELSE "false",
                 HeadlineOut(out.builder, out.headline, <<>>, found))

BuilderHasTag(t) ==
    /\ Building
    /\ HasTagStep("HeadlineBuilder::has_tag", t, HeadlineBuilder_has_tag(out.builder, t))

\* has_tag on the headline that headline() returned
HeadlineHasTag(t) ==
    /\ op.name = "headline"
    /\ op.res = "Ok"
    /\ HasTagStep("Headline::has_tag", t, Headline_has_tag(out.headline[1], t))

NextBuilder ==
    \/ \E level \in BuilderLevels : Builder_level(level)
    \/ \E keyword \in BuilderKeywords : Builder_keyword(keyword)
    \/ \E priority \in BuilderPriorities : Builder_priority(priority)
    \/ \E commented \in BOOLEAN : Builder_commented(commented)
    \/ \E title \in BuilderTitles : Builder_title(title)
    \/ \E body \in BuilderBodies : Builder_body(body)
    \/ \E raw_tags \in BuilderTags : Builder_set_raw_tags_string(raw_tags)
    \/ ToBuilder
    \/ ValidatePartially
    \/ BuilderToRope
    \/ BuilderHeadline
    \/ \E t \in Needles : BuilderHasTag(t)
    \/ \E t \in Needles : HeadlineHasTag(t)

SpecBuilder == InitBuilder /\ [][NextBuilder]_vars

(***************************************************************************)
(* The headline predicate on single lines: a run of stars, then a tail     *)
(* that starts with no star.  Runs are short, or as long as a u16 can      *)
(* count and longer.                                                       *)
(***************************************************************************)
MaxStars == 4
u16_MAX == 65535

LongRuns == {u16_MAX, u16_MAX + 1, u16_MAX + 2}
LexStops == {SP, TAB, NL, CR, NBSP, "a"}
LexTails == {<<>>} \cup {<<c>> : c \in LexStops} \cup {<<c, "a">> : c \in LexStops}
LexInputs ==
    [stars : 0..MaxStars, tail : LexTails]
        \cup [stars : LongRuns, tail : {<<>>, <<SP>>, <<TAB>>}]

\* the line an input stands for: its stars, then its tail
LexLine(in) == [i \in 1..in.stars |-> STAR] \o in.tail

InitLex ==
    /\ arena = EmptyArena
    /\ docs = <<>>
    /\ handles = {}
    /\ op = InitOp
    /\ panicked = FALSE
    /\ ok_so_far = TRUE
    /\ nops = 0
    /\ input \in LexInputs
    /\ out = [level |-> 0]

LexCall(name, level) ==
    /\ nops = 0
    /\ op' = [op EXCEPT !.name = name, !.ret = level]
    /\ out' = [level |-> level]
    /\ nops' = 1
    /\ UNCHANGED <<arena, docs, handles, panicked, ok_so_far, input>>

\* headline_level(line, 0)
HeadlineLevel == LexCall("headline_level", headline_level(LexLine(input), 0))

\* lex_level(line)
LexLevel == LexCall("lex_level", lex_level(LexLine(input)))

\* parse_str(line) on a fresh arena
ParseLine == nops = 0 /\ ParseStr(LexLine(input))

\* to_rope of the document parsed from the line
EmitLine == op.name = "parse_str" /\ ToRope(1)

NextLex == HeadlineLevel \/ LexLevel \/ ParseLine \/ EmitLine

SpecLex == InitLex /\ [][NextLex]_vars

(***************************************************************************)
(* Timestamps: a value is written with Display and the text is parsed      *)
(* again; a text that holds a date is parsed by Date::parse and, between   *)
(* delimiters, by Timestamp::parse.                                        *)
(***************************************************************************)
Date_new(year, month, day) == [year |-> year, month |-> month, day |-> day]
Time_new(hour, minute) == [hour |-> hour, minute |-> minute]
Interval_new(value, unit) == [value |-> value, unit |-> unit]
Repeater_new(mark, interval) == [mark |-> mark, interval |-> interval]
Delay_new(mark, interval) == [mark |-> mark, interval |-> interval]
RepeaterAndDelay_new(repeater, delay) == [repeater |-> repeater, delay |-> delay]

ValueDates ==
    {Date_new(2022, 8, 28), Date_new(2024, 2, 29), Date_new(7, 1, 2), Date_new(9999, 12, 31),
     Date_new(10000, 1, 1)}
ValueTimes == {None, Some(Time_new(9, 5)), Some(Time_new(23, 59))}
ValueRepeaters ==
    {None, Some(Repeater_new("Cumulate", Interval_new(1, "d"))),
     Some(Repeater_new("CatchUp", Interval_new(2, "w"))),
     Some(Repeater_new("Restart", Interval_new(10, "m")))}
ValueDelays ==
    {None, Some(Delay_new("All", Interval_new(1, "h"))),
     Some(Delay_new("First", Interval_new(3, "y")))}

Points ==
    [active : BOOLEAN, date : ValueDates, time : ValueTimes,
     cookie : {RepeaterAndDelay_new(r, d) : r \in ValueRepeaters, d \in ValueDelays}]

\* the points that ranges are built from
RangePoints ==
    {p \in Points :
        /\ p.date.year \in {2022, 10000}
        /\ p.time # Some(Time_new(23, 59))
        /\ p.cookie \in {RepeaterAndDelay_default,
                         RepeaterAndDelay_new(Some(Repeater_new("Cumulate", Interval_new(1, "d"))),
                                              Some(Delay_new("First", Interval_new(3, "y"))))}}

\* Range::new(start, end): the end takes the activity of the start
Range_new(start, end) ==
    [kind |-> "Range", start |-> start, end |-> [end EXCEPT !.active = start.active]]

\* TimeRange::new(start, end_time)
TimeRange_new(start, end_time) ==
    [kind |-> "TimeRange", start |-> start, end_time |-> end_time]

\* Diary::new(s)
Diary_new(s) == [kind |-> "Diary", text |-> s]

DiaryTexts ==
    {<<>>, <<"x">>, <<")">>, <<"(">>, <<"a", SP, "b">>, <<"]">>, <<"<">>, <<">">>,
     <<"x", ">", "y">>}

TimestampValues ==
    {[kind |-> "Point", point |-> p] : p \in Points}
        \cup {Range_new(s, e) : s \in RangePoints, e \in RangePoints}
        \cup {TimeRange_new(s, e[1]) : s \in {p \in Points : p.time # None},
                                       e \in ValueTimes \ {None}}
        \cup {Diary_new(s) : s \in DiaryTexts}

\* texts yyyy-mm-dd: dates that exist, and digits that name no date
DateText(y, m, d) ==
    pad_zero(to_string(y), 4) \o <<"-">> \o pad_zero(to_string(m), 2)
        \o <<"-">> \o pad_zero(to_string(d), 2)

RealDateTexts == {DateText(2022, 8, 28), DateText(2024, 2, 29), DateText(2000, 2, 29)}
NoDateTexts ==
    {DateText(2022, 2, 30), DateText(2023, 2, 29), DateText(1900, 2, 29),
     DateText(2022, 0, 10), DateText(2022, 13, 1), DateText(2022, 4, 31),
     DateText(2022, 1, 0), DateText(2022, 1, 32), DateText(2022, 99, 99)}
DateTexts == RealDateTexts \cup NoDateTexts

\* the ways a date text is put in a timestamp text
TimestampForms ==
    {"active", "inactive", "dayname", "time", "times", "cookie", "range start", "range end"}

TimestampText(form, date) ==
    IF form = "active" THEN <<"<">> \o date \o <<">">>
    ELSE IF form = "inactive" THEN <<"[">> \o date \o <<"]">>
    ELSE IF form = "dayname" THEN <<"<">> \o date \o <<SP, "S", "u", "n", ">">>
    ELSE IF form = "time" THEN <<"<">> \o date \o <<SP, "1", "0", COLON, "0", "0", ">">>
    ELSE IF form = "times"
    THEN <<"<">> \o date \o <<SP, "1", "0", COLON, "0", "0", "-", "1", "1", COLON, "0", "0", ">">>
    ELSE IF form = "cookie" THEN <<"<">> \o date \o <<SP, "+", "1", "d", ">">>
    ELSE IF form = "range start"
    THEN <<"<">> \o date \o <<">", "-", "-", "<">> \o DateText(2022, 8, 29) \o <<">">>
    ELSE <<"<">> \o DateText(2022, 8, 27) \o <<">", "-", "-", "<">> \o date \o <<">">>

NoValue == [kind |-> "none"]

TimestampInputs ==
    {[kind |-> "value", value |-> t, text |-> <<>>] : t \in TimestampValues}
        \cup {[kind |-> "text", value |-> NoValue, text |-> s] : s \in DateTexts}

TimestampOut(text, parsed) == [text |-> text, parsed |-> parsed]

InitTimestamp ==
    /\ arena = EmptyArena
    /\ docs = <<>>
    /\ handles = {}
    /\ op = InitOp
    /\ panicked = FALSE
    /\ ok_so_far = TRUE
    /\ nops = 0
    /\ input \in TimestampInputs
    /\ out = TimestampOut(<<>>, Err)

TimestampCall(name, text, r) ==
    /\ ~panicked
    /\ op' = [op EXCEPT !.name = name, !.text = text,
                        !.res = IF r.panic THEN "panic" ELSE IF r.ok THEN "Ok" ELSE "Err"]
    /\ out' = TimestampOut(text, r)
    /\ panicked' = r.panic
    /\ ok_so_far' = (ok_so_far /\ r.ok)
    /\ nops' = nops + 1
    /\ UNCHANGED <<arena, docs, handles, input>>

\* t.to_string()
Display ==
    /\ nops = 0
    /\ input.kind = "value"
    /\ TimestampCall("to_string", Timestamp_fmt(input.value), Ok(<<>>, input.value))

\* Timestamp::parse on the text written
ParseDisplayed ==
    /\ op.name = "to_string"
    /\ TimestampCall("parse", out.text, Timestamp_parse(out.text))

\* Date::parse on a date text
DateParse ==
    /\ nops = 0
    /\ input.kind = "text"
    /\ TimestampCall("Date::parse", input.text, Date_parse(input.text))

\* Timestamp::parse on a timestamp text that holds the date text
TimestampParse(form) ==
    /\ nops = 0
    /\ input.kind = "text"
    /\ TimestampCall("Timestamp::parse", TimestampText(form, input.text),
                     Timestamp_parse(TimestampText(form, input.text)))

NextTimestamp ==
    \/ Display
    \/ ParseDisplayed
    \/ DateParse
    \/ \E form \in TimestampForms : TimestampParse(form)

SpecTimestamp == InitTimestamp /\ [][NextTimestamp]_vars

(***************************************************************************)
(* Two documents parsed on one arena, up to MaxEdits structural            *)
(* operations on their sections, then the emission of either document.     *)
(***************************************************************************)
MaxEdits == 2

ShapeTexts == {<<"a">>, Headline(1), Lines(Headline(1), Headline(2))}

\* texts given to set_raw: a headline followed by an empty line, a body
ShapeRaws == {Lines(Headline(1), <<NL>>), <<"a">>}

\* the state after parse_str(first) and parse_str(second) on a new arena
InitShapeOf(first, second) ==
    /\ arena = second.arena
    /\ docs = <<first.doc, second.doc>>
    /\ handles = Nodes(second.arena)
    /\ op = Call("parse_str", 0, 0, 0, <<>>,
                 Result(second.arena, "ok", second.doc.root, FALSE), first.arena)
    /\ panicked = FALSE
    /\ ok_so_far = TRUE
    /\ nops = 0
    /\ input = <<>>
    /\ out = NoOut

InitShape ==
    \E s \in ShapeTexts, t \in ShapeTexts :
        InitShapeOf(parse_document(EmptyArena, s),
                    parse_document(parse_document(EmptyArena, s).arena, t))

Editing == nops < MaxEdits /\ op.name # "to_rope"

AppendEdit == Editing /\ \E p, n \in handles : Append_(p, n)

InsertAfterEdit == Editing /\ \E sib, n \in handles : InsertAfter(sib, n)

SetLevelEdit == Editing /\ \E h \in handles, level \in Levels : SetLevel(h, level)

SetRawEdit == Editing /\ \E h \in handles, raw \in ShapeRaws : SetRaw(h, raw)

RemoveEdit == Editing /\ \E h \in handles : RemoveSubtree(h)

EmitEdited == op.name # "to_rope" /\ \E d \in DOMAIN docs : ToRope(d)

NextShape ==
    \/ AppendEdit
    \/ InsertAfterEdit
    \/ SetLevelEdit
    \/ SetRawEdit
    \/ RemoveEdit
    \/ EmitEdited

SpecShape == InitShape /\ [][NextShape]_vars

(***************************************************************************)
(* tree.rs: Document::at and Section::at, the section and the offset in    *)
(* its text of a character index of the emission                           *)
(***************************************************************************)
AtSome(section, offset) == [some |-> TRUE, panic |-> FALSE, section |-> section, offset |-> offset]
AtNone == [some |-> FALSE, panic |-> FALSE, section |-> 0, offset |-> 0]
AtPanic == [some |-> FALSE, panic |-> TRUE, section |-> 0, offset |-> 0]

Section_to_rope(ar, n) == section_tree_to_rope(ar, n, TRUE, TRUE)

RECURSIVE Section_at(_, _, _), Section_at_children(_, _, _)
\* the loop over the children, pos being what is left after the text and the
\* children before kids
Section_at_children(ar, kids, pos) ==
    IF kids = <<>> THEN AtNone
    ELSE IF pos < Len(Section_to_rope(ar, Head(kids)))
    THEN IF Section_at(ar, Head(kids), pos).some
         THEN Section_at(ar, Head(kids), pos)
         ELSE AtSome(Head(kids), pos)
    ELSE Section_at_children(ar, Tail(kids),
                             pos - Len(Section_to_rope(ar, Head(kids))))

Section_at(ar, self, pos) ==
    IF pos < Len(ar.text[self]) THEN AtSome(self, pos)
    ELSE Section_at_children(ar, children(ar, self), pos - Len(ar.text[self]))

\* Document::at after its two early returns: in_play is
\* terminal_newline_in_play, and k - 2 is computed in usize
Document_at_section(ar, doc, pos, k, in_play) ==
    IF in_play /\ k < 2 THEN AtPanic
    ELSE IF Section_at(ar, doc.root,
                       (IF in_play THEN k - 2 ELSE pos)
                       - (IF ~doc.empty_root_section
                             /\ (IF in_play THEN k - 2 ELSE pos) > 0
                          THEN 1 ELSE 0)).some
    THEN AtSome(Section_at(ar, doc.root,
                       (IF in_play THEN k - 2 ELSE pos)
                       - (IF ~doc.empty_root_section
                             /\ (IF in_play THEN k - 2 ELSE pos) > 0
                          THEN 1 ELSE 0)).section,
                Section_at(ar, doc.root,
                       (IF in_play THEN k - 2 ELSE pos)
                       - (IF ~doc.empty_root_section
                             /\ (IF in_play THEN k - 2 ELSE pos) > 0
                          THEN 1 ELSE 0)).offset
                + (IF in_play THEN 1 ELSE 0))
    ELSE AtNone

Document_at_in(ar, doc, pos, ct) ==
    IF pos >= Len(ct) THEN AtNone
    ELSE IF pos = 0 /\ (~doc.empty_root_section \/ ct = <<NL>>)
    THEN AtSome(doc.root, pos)
    ELSE Document_at_section(ar, doc, pos, Len(ct),
                             pos = Len(ct) - 1 /\ doc.terminal_newline)

Document_at(ar, doc, pos) == Document_at_in(ar, doc, pos, Document_to_rope(ar, doc))

(***************************************************************************)
(* Document::at on the document parsed from every input of SpecParse, at   *)
(* every index up to one past the end of the input.                        *)
(***************************************************************************)
AtOf(d, pos, r) ==
    /\ Step("at", 0, d, 0, <<>>,
            Result(arena, IF r.panic THEN "panic" ELSE IF r.some THEN "Some" ELSE "None",
                   r.section, r.panic), {})
    /\ out' = [doc |-> d, rope |-> Document_to_rope(arena, docs[d]),
               pos |-> pos, offset |-> r.offset]
    /\ UNCHANGED docs

At(d, pos) == AtOf(d, pos, Document_at(arena, docs[d], pos))

AtParsed ==
    op.name = "parse_str" /\ \E pos \in 0..(Len(input) + 1) : At(1, pos)

NextAt == ParseInput \/ AtParsed

SpecAt == InitParse /\ [][NextAt]_vars

(***************************************************************************)
(* headline/builder.rs: set_tags and update_tags                           *)
(***************************************************************************)
RECURSIVE join(_, _)
join(tags, sep) ==
    IF tags = <<>> THEN <<>>
    ELSE IF Len(tags) = 1 THEN tags[1]
    ELSE tags[1] \o <<sep>> \o join(Tail(tags), sep)

set_tags(b, tags) == set_raw_tags_string(b, join(tags, COLON))

\* tag_str with tag pushed after a ':' unless tag_str is empty
push_tag(tag_str, t) ==
    (IF tag_str # <<>> THEN tag_str \o <<COLON>> ELSE tag_str) \o t

\* the first loop of update_tags, over the components of the raw tag string;
\* st is tag_set and tag_str
RECURSIVE update_tags_present(_, _)
update_tags_present(comps, st) ==
    IF comps = <<>> THEN st
    ELSE IF Head(comps) # <<>> /\ Head(comps) \notin st.tag_set
    THEN update_tags_present(Tail(comps),
             [tag_set |-> st.tag_set \cup {Head(comps)},
              tag_str |-> push_tag(st.tag_str, Head(comps))])
    ELSE update_tags_present(Tail(comps), st)

\* the second loop of update_tags, over the tags given: the tag is pushed
\* and tag_str truncated to its former length ck if the tag is empty or was
\* in tag_set
RECURSIVE update_tags_given(_, _)
update_tags_given(tags, st) ==
    IF tags = <<>> THEN st
    ELSE update_tags_given(Tail(tags),
             [tag_set |-> IF Head(tags) = <<>> THEN st.tag_set
                          ELSE st.tag_set \cup {Head(tags)},
              tag_str |-> IF Head(tags) = <<>> \/ Head(tags) \in st.tag_set
                          THEN Take(push_tag(st.tag_str, Head(tags)), Len(st.tag_str))
                          ELSE push_tag(st.tag_str, Head(tags))])

update_tags(b, tags) ==
    IF b.raw_tags_string = <<>> THEN set_tags(b, tags)
    ELSE set_raw_tags_string(b,
             update_tags_given(tags,
                 update_tags_present(split(b.raw_tags_string, COLON),
                                     [tag_set |-> {}, tag_str |-> <<>>])).tag_str)

(***************************************************************************)
(* update_tags on a default builder whose raw tag string has been set      *)
(***************************************************************************)
MaxTags == 3

PriorTags ==
    {<<>>, <<"a">>, <<"a", COLON, "a">>, <<"a", COLON, COLON, "b">>, <<COLON>>,
     <<"b", COLON, "a">>}

GivenTags == {<<>>, <<"a">>, <<"b">>, <<"c">>, <<"b", COLON, "a">>}

TagLists == UNION {[1..n -> GivenTags] : n \in 0..MaxTags}

InitTags ==
    /\ arena = EmptyArena
    /\ docs = <<>>
    /\ handles = {}
    /\ op = InitOp
    /\ panicked = FALSE
    /\ ok_so_far = TRUE
    /\ nops = 0
    /\ input \in [prior : PriorTags, tags : TagLists]
    /\ out = NoHeadlineOut

SetRawTags ==
    /\ op.name = "init"
    /\ HeadlineStep("set_raw_tags", input.prior, "Ok",
                    HeadlineOut(set_raw_tags_string(out.builder, input.prior),
                                None, <<>>, FALSE))

UpdateTags ==
    /\ op.name = "set_raw_tags"
    /\ HeadlineStep("update_tags", <<>>, "Ok",
                    HeadlineOut(update_tags(out.builder, input.tags),
                                None, <<>>, FALSE))

NextTags == SetRawTags \/ UpdateTags

SpecTags == InitTags /\ [][NextTags]_vars

(***************************************************************************)
(* Parse-emit identity                                                     *)
(***************************************************************************)
\* C1: for every input S, parse_str(S) returns a document (it does not
\* panic) and Document::to_rope of that document is S, byte for byte.
C1_ParseEmitIdentity ==
    /\ op.name = "parse_str" => ~panicked /\ op.text = input
    /\ op.name = "to_rope" => out.rope = input

\* C1 on a single long line: parse_str returns a document for it and
\* Document::to_rope of that document is the line, byte for byte.
C1_LongLineIdentity ==
    /\ op.name = "parse_str" => ~panicked
    /\ op.name = "to_rope" => out.rope = LexLine(input)

\* C1 witness: a document with root text, a headline and a terminal newline
\* has been parsed and emitted.
C1_Witness ==
    /\ op.name = "to_rope"
    /\ out.rope = input
    /\ arena.text[1] # <<>>
    /\ children(arena, 1) # <<>>
    /\ docs[1].terminal_newline

(***************************************************************************)
(* Vocabulary of the properties                                            *)
(***************************************************************************)
AttachOps == {"append", "prepend", "insert_before", "insert_after"}

CheckedOps ==
    {"checked_append", "checked_prepend", "checked_insert_before",
     "checked_insert_after"}

\* every node that has a parent has a level above its parent's
Monotone(ar) ==
    \A n \in Nodes(ar) :
        ar.parent[n] # 0 => ar.level[n] > ar.level[ar.parent[n]]

\* t starts with exactly L '*' and then an ASCII space
StartsWithLevel(t, L) ==
    /\ Len(t) > L
    /\ \A i \in 1..L : t[i] = STAR
    /\ t[L + 1] = SP

Coherent(ar) ==
    \A n \in Nodes(ar) :
        ar.level[n] >= 1 => StartsWithLevel(ar.text[n], ar.level[n])

Without(seq, n) == SelectSeq(seq, LAMBDA x : x # n)

IndexOf(seq, x) == CHOOSE i \in 1..Len(seq) : seq[i] = x

\* seq with the sequence mid put after its first k elements
PutAt(seq, k, mid) == SubSeq(seq, 1, k) \o mid \o SubSeq(seq, k + 1, Len(seq))

(***************************************************************************)
(* Level monotonicity                                                      *)
(***************************************************************************)
\* C2: in a run of successful calls, every node that has a parent has a
\* level strictly greater than its parent's after each append, prepend,
\* insert_*, checked_*, remove_subtree, replace_with_children, set_level or
\* set_raw, descendants of an auto-bumped node included.
C2_LevelMonotonicity ==
    ( /\ ok_so_far
      /\ op.name \in AttachOps \cup CheckedOps \cup
                     {"parse_str", "new_section", "remove_subtree",
                      "replace_with_children", "set_level", "set_raw"}
      /\ Monotone(op.pre) )
    => Monotone(arena)

NewParent(ar, name, self) ==
    IF name \in {"append", "prepend"} THEN self ELSE ar.parent[self]

\* the children the new parent p has after the call, from those it had
AttachedChildren(ar, name, self, p, n) ==
    LET rest == Without(children(ar, p), n) IN
    CASE name = "append" -> rest \o <<n>>
      [] name = "prepend" -> <<n>> \o rest
      [] name = "insert_after" -> PutAt(rest, IndexOf(rest, self), <<n>>)
      [] name = "insert_before" -> PutAt(rest, IndexOf(rest, self) - 1, <<n>>)

Max(a, b) == IF a >= b THEN a ELSE b

C5_CheckedLevelError ==
    op.name \in CheckedOps =>
        LET pre == op.pre
            p == IF op.name \in {"checked_append", "checked_prepend"}
                 THEN op.self ELSE pre.parent[op.self]
        IN /\ (p # 0 /\ pre.level[op.arg] <= pre.level[p])
                 => op.res = "LevelError"
           /\ op.res = "LevelError" => arena = pre
           /\ arena.level = pre.level
           /\ arena.text = pre.text

\* C5 witness: checked_append of a section of its parent's own level has
\* returned LevelError.
C5_Witness ==
    /\ op.name = "checked_append"
    /\ op.res = "LevelError"
    /\ op.self # op.arg
    /\ op.pre.level[op.arg] = op.pre.level[op.self]
    /\ arena = op.pre

(***************************************************************************)
(* set_level                                                               *)
(***************************************************************************)
\* what makes set_level(h, L) fail on a section h of level >= 1, L # level
SetLevelRefused(ar, h, L) ==
    \/ L = 0
    \/ ar.parent[h] # 0 /\ ar.level[ar.parent[h]] >= L
    \/ \E c \in Range(children(ar, h)) : ar.level[c] <= L

\* C6: for a section h of level >= 1 and L different from h's level,
\* set_level(h, L) returns LevelError and changes nothing if L = 0, or h's
\* parent has level >= L, or a child of h has level <= L; otherwise it
\* succeeds, h's level is L and h's text is L '*' followed by what followed
\* its old stars, and nothing else changes.  set_level(h, h's level)
\* succeeds and changes nothing; on a section of level 0 every L >= 1
\* fails and changes nothing.
C6_SetLevel ==
    op.name = "set_level" =>
        LET pre == op.pre
            h == op.self
            L == op.level
            old == pre.level[h]
        IN IF L = old THEN op.res = "ok" /\ arena = pre
           ELSE IF old = 0 \/ SetLevelRefused(pre, h, L)
           THEN op.res = "LevelError" /\ arena = pre
           ELSE /\ op.res = "ok"
                /\ arena.level[h] = L
                /\ arena.text[h] =
                      Stars(L) \o SubSeq(pre.text[h], old + 1, Len(pre.text[h]))
                /\ arena = [pre EXCEPT !.level[h] = arena.level[h],
                                       !.text[h] = arena.text[h]]

\* C6 witness: set_level has lowered a section that has a parent and a
\* child to a level strictly between theirs.
C6_Witness ==
    /\ op.name = "set_level"
    /\ op.res = "ok"
    /\ op.level < op.pre.level[op.self]
    /\ arena.parent[op.self] # 0
    /\ arena.first[op.self] # 0
    /\ arena.level[op.self] = op.level
    /\ arena.text[op.self] = Headline(op.level)

(***************************************************************************)
(* set_raw                                                                 *)
(***************************************************************************)
\* the links of every node of ar are those it has in br
SameLinks(ar, br) ==
    \A n \in Nodes(ar) :
        /\ br.parent[n] = ar.parent[n]
        /\ br.prev[n] = ar.prev[n]
        /\ br.next[n] = ar.next[n]
        /\ br.first[n] = ar.first[n]
        /\ br.last[n] = ar.last[n]

\* set_raw(h, raw) is to succeed: raw parses to the section r.ret, which has
\* no child headline, is of h's kind, and has a level above h's parent's
\* and below every child's
SetRawAccepts(ar, h, r) ==
    /\ r.res = "Some"
    /\ children(r.arena, r.ret) = <<>>
    /\ (r.arena.level[r.ret] = 0) = (ar.level[h] = 0)
    /\ ar.parent[h] # 0 => r.arena.level[r.ret] > ar.level[ar.parent[h]]
    /\ \A c \in Range(children(ar, h)) : r.arena.level[r.ret] < ar.level[c]

\* what C7 says of a set_raw(h, raw) whose text parsed to r
SetRawPostcondition(pre, h, r) ==
    /\ (op.res = "ok") = SetRawAccepts(pre, h, r)
    /\ op.res = "ok" =>
          /\ arena.level[h] = r.arena.level[r.ret]
          /\ arena.text[h] = r.arena.text[r.ret]
    /\ op.res \in {"InvalidBodyError", "InvalidLevelError"} =>
          /\ arena.level[h] = pre.level[h]
          /\ arena.text[h] = pre.text[h]
    /\ SameLinks(pre, arena)

\* C7: set_raw(h, text) succeeds exactly when text parses to one section
\* with no child headline, of h's kind, whose level is above h's parent's
\* and below every child's, and then h's level and text are the parsed
\* ones; on failure h's level and text are unchanged; in both cases the
\* links of every section are unchanged.
C7_SetRaw ==
    op.name = "set_raw" =>
        SetRawPostcondition(op.pre, op.self, new_section(op.pre, op.text))

(***************************************************************************)
(* Panics                                                                  *)
(***************************************************************************)
\* C8: no sequence of calls of the result-returning operations panics.
C8_NoPanic == ~panicked

C10_ReplaceWithChildren ==
    (op.name = "replace_with_children" /\ op.pre.parent[op.self] # 0) =>
        LET pre == op.pre
            h == op.self
            P == pre.parent[h]
            sibs == children(pre, P)
            k == IndexOf(sibs, h)
        IN /\ arena.parent[h] = 0
           /\ children(arena, h) = <<>>
           /\ children(arena, P) =
                 PutAt(Without(sibs, h), k - 1, children(pre, h))
           /\ \A c \in Range(children(pre, h)) :
                 /\ arena.parent[c] = P
                 /\ arena.level[c] > arena.level[P]
           /\ arena.level = pre.level
           /\ arena.text = pre.text

(***************************************************************************)
(* clone_section, clone_subtree                                            *)
(***************************************************************************)
\* the subtree of a in ar and the subtree of b in br have the same levels,
\* texts and child order
RECURSIVE SameSubtree(_, _, _, _)
SameSubtree(ar, a, br, b) ==
    /\ br.level[b] = ar.level[a]
    /\ br.text[b] = ar.text[a]
    /\ Len(children(br, b)) = Len(children(ar, a))
    /\ \A i \in 1..Len(children(ar, a)) :
          SameSubtree(ar, children(ar, a)[i], br, children(br, b)[i])

\* every node of ar has in br the data and links it has in ar
Untouched(ar, br) ==
    /\ SameLinks(ar, br)
    /\ \A n \in Nodes(ar) :
          /\ br.level[n] = ar.level[n]
          /\ br.text[n] = ar.text[n]
          /\ br.removed[n] = ar.removed[n]

\* C11: clone_section(h) returns a new node with h's level and text, no
\* parent and no children; clone_subtree(h) completes on every subtree and
\* returns the root of a new detached subtree with the levels, texts and
\* child order of h's subtree; neither changes the data or links of a node
\* that existed.
C11_Clone ==
    /\ op.name = "clone_section" =>
          /\ op.res = "ok"
          /\ op.ret \notin Nodes(op.pre)
          /\ arena.level[op.ret] = op.pre.level[op.self]
          /\ arena.text[op.ret] = op.pre.text[op.self]
          /\ arena.parent[op.ret] = 0
          /\ children(arena, op.ret) = <<>>
          /\ Untouched(op.pre, arena)
    /\ op.name = "clone_subtree" =>
          /\ ~panicked
          /\ op.res = "ok"
          /\ op.ret \notin Nodes(op.pre)
          /\ arena.parent[op.ret] = 0
          /\ arena.prev[op.ret] = 0 /\ arena.next[op.ret] = 0
          /\ Range(subtree(arena, op.ret)) \cap Nodes(op.pre) = {}
          /\ SameSubtree(op.pre, op.self, arena, op.ret)
          /\ Untouched(op.pre, arena)

(***************************************************************************)
(* Document::to_rope                                                       *)
(***************************************************************************)
\* the texts of the sequence of sections ns, in order
TextsOf(ar, ns) == [i \in 1..Len(ns) |-> ar.text[ns[i]]]

\* the texts ts with one '\n' between consecutive ones
RECURSIVE JoinLines(_)
JoinLines(ts) ==
    IF ts = <<>> THEN <<>>
    ELSE IF Len(ts) = 1 THEN ts[1]
    ELSE ts[1] \o <<NL>> \o JoinLines(Tail(ts))

\* the document has a slot for its root: all but a root of level 0 without
\* text in a document whose input had no root section
RootSlot(ar, doc) ==
    ~(ar.level[doc.root] = 0 /\ ar.text[doc.root] = <<>>
      /\ doc.empty_root_section)

\* the section texts to_rope is to emit: the root's, if it has a slot, then
\* those of its descendants in depth-first pre-order
EmittedTexts(ar, doc) ==
    TextsOf(ar, IF RootSlot(ar, doc) THEN subtree(ar, doc.root)
                ELSE Tail(subtree(ar, doc.root)))

\* C12 as stated: to_rope emits the section texts with one '\n' between
\* consecutive ones and ends with one more '\n' if and only if
\* terminal_newline is set and what it has emitted is non-empty.
C12_FinalNewlineAfterText ==
    op.name = "to_rope" =>
        LET doc == docs[op.arg]
            body == JoinLines(EmittedTexts(arena, doc))
        IN out.rope = IF doc.terminal_newline /\ body # <<>>
                      THEN Append(body, NL) ELSE body

\* C12, amended: to_rope emits the root text (when the root has a slot),
\* then the text of every attached descendant in depth-first pre-order,
\* with one '\n' between consecutive texts, and ends with one more '\n' if
\* and only if terminal_newline is set and it has emitted at least one
\* section text, be it an empty one.
C12_ToRope ==
    op.name = "to_rope" =>
        LET doc == docs[op.arg]
            ts == EmittedTexts(arena, doc)
        IN out.rope = IF doc.terminal_newline /\ ts # <<>>
                      THEN Append(JoinLines(ts), NL) ELSE JoinLines(ts)

\* C12 witness: to_rope of the document parsed from "\n", whose root has a
\* slot and no text, has emitted the one '\n'.
C12_Witness ==
    /\ op.name = "to_rope"
    /\ docs[op.arg].terminal_newline
    /\ EmittedTexts(arena, docs[op.arg]) = <<<<>>>>
    /\ out.rope = <<NL>>

(***************************************************************************)
(* Trailing newlines of section texts                                      *)
(***************************************************************************)
EndsWithNewline(t) == t # <<>> /\ t[Len(t)] = NL

\* s has a section that ends with an empty line: two '\n' in a row that
\* are followed by the end of s or by a headline
SectionEndsWithEmptyLine(s) ==
    \E i \in 1..(Len(s) - 1) :
        /\ s[i] = NL
        /\ s[i + 1] = NL
        /\ (i + 1 = Len(s) \/ headline_level(s, i + 1) > 0)

LastWord(t) == Drop(t, Len(t) - SuffixLen(t, Range(t) \ Whitespace))

StartsWithKeyword(t, context) ==
    \E i \in 1..Len(split(context, COLON)) : starts_with(t, split(context, COLON)[i])

StartsWithCookie(t) ==
    Len(t) >= 4 /\ t[1] = "[" /\ t[2] = "#" /\ t[3] \in Uppercase /\ t[4] = "]"

EndsInTagGroup(t) ==
    Len(LastWord(t)) >= 2 /\ LastWord(t)[1] = COLON
    /\ LastWord(t)[Len(LastWord(t))] = COLON

\* the titles the statement is about: not starting with a keyword, a
\* priority cookie or COMMENT, and not ending in a tag group
PlainTitle(t) ==
    /\ ~StartsWithKeyword(t, DefaultContext)
    /\ ~StartsWithCookie(t)
    /\ ~starts_with(t, COMMENT)
    /\ ~EndsInTagGroup(t)

Trimmed(t) == t = <<>> \/ (t[1] \notin Whitespace /\ t[Len(t)] \notin Whitespace)

\* the headline a title line of the form f stands for
FormHeadline(f) ==
    HeadlinePod(f.level, f.commented, f.keyword, f.priority, f.title,
                IF f.tags = None THEN <<>> ELSE f.tags[1], NoPlanning, <<>>)

ParsedAs(h) ==
    op.name = "parse_headline" /\ op.res = "Some" /\ out.headline = Some(h)

Reparsed(b) == parse_headline(HeadlinePod_to_rope(b), DefaultContext)

\* the first word of a title is a keyword of the context
FirstWordIsKeyword(t, context) ==
    keyword_in_context(Take(t, PrefixLenNot(t, Whitespace)), split(context, COLON))

\* a builder with nothing but a level, a title and a body
Bare(b) ==
    /\ b.keyword = None
    /\ b.priority = None
    /\ ~b.commented
    /\ b.raw_tags_string = <<>>
    /\ b.planning = NoPlanning

\* the titles that do not survive the round trip of a bare builder
TrickTitle(t) ==
    \/ FirstWordIsKeyword(t, DefaultContext)
    \/ StartsWithCookie(t)
    \/ is_commented(t)
    \/ (EndsInTagGroup(t) /\ NL \notin Range(t))
    \/ NL \in Range(t)

\* C15: headline(ctx) returns Ok(h) only when the text it emits parses back
\* to a headline equal to the builder in every field, and h then has the
\* builder's fields; when partial validation passes and the re-parse
\* differs in a field it returns NonEquivalentReparseError, as it does for
\* a title that begins with a keyword, a priority cookie or COMMENT, ends
\* in a tag group or contains a newline.
C15_Headline ==
    op.name = "headline" =>
        /\ op.res = "Ok" =>
              /\ Reparsed(out.builder).res = "Some"
              /\ \A field \in DOMAIN out.builder :
                    Reparsed(out.builder).headline[1][field] = out.builder[field]
              /\ out.headline = Some(out.builder)
        /\ (/\ validate_partially(out.builder, DefaultContext) = "Ok"
            /\ Reparsed(out.builder).res = "Some"
            /\ \E field \in DOMAIN out.builder :
                  Reparsed(out.builder).headline[1][field] # out.builder[field])
              => op.res = "NonEquivalentReparseError"
        /\ (/\ validate_partially(out.builder, DefaultContext) = "Ok"
            /\ Bare(out.builder)
            /\ TrickTitle(out.builder.title)
            /\ op.res # "panic")
              => op.res = "NonEquivalentReparseError"

C15_Witness ==
    /\ op.name = "headline"
    /\ op.res = "NonEquivalentReparseError"
    /\ out.builder.title = TODO \o <<SP, "x">>
    /\ out.builder.body = <<"b">>
    /\ Bare(out.builder)

(***************************************************************************)
(* Partial validation                                                      *)
(***************************************************************************)
ValidatingOps == {"validate_partially", "to_rope", "headline"}

\* the character at k starts a line of t that is one or more '*' and then
\* an ASCII space
HeadlineLineAt(t, k) ==
    /\ (k = 1 \/ t[k - 1] = NL)
    /\ \E n \in 1..(Len(t) - k) :
          /\ \A i \in k..(k + n - 1) : t[i] = STAR
          /\ t[k + n] = SP

HasHeadlineLine(t) == \E k \in 1..Len(t) : HeadlineLineAt(t, k)

BadLevel(b) == b.level = 0
BadPriority(b) == b.priority # None /\ b.priority[1] \notin Uppercase
BadKeyword(b) ==
    b.keyword # None /\ b.keyword[1] \notin {TODO, DONE}
BadBody(b) == HasHeadlineLine(b.body)

\* the errors whose condition the builder b meets
ErrorsOf(b) ==
    {e \in {"InvalidLevelError", "InvalidPriorityError", "InvalidKeywordError",
            "InvalidBodyError"} :
        \/ (e = "InvalidLevelError" /\ BadLevel(b))
        \/ (e = "InvalidPriorityError" /\ BadPriority(b))
        \/ (e = "InvalidKeywordError" /\ BadKeyword(b))
        \/ (e = "InvalidBodyError" /\ BadBody(b))}

\* C16: validate_partially, and with it to_rope and headline, returns
\* InvalidLevelError for level 0, InvalidPriorityError for a priority that
\* is not an uppercase ASCII letter, InvalidKeywordError for a keyword that
\* is not in the context, InvalidBodyError for a body with a line that
\* starts with stars and an ASCII space, and none of these four otherwise:
\* a body whose '*' lines are indented or lack the space is accepted.
C16_ValidatePartially ==
    op.name \in ValidatingOps =>
        /\ ErrorsOf(out.builder) # {} => op.res \in ErrorsOf(out.builder)
        /\ ErrorsOf(out.builder) = {} =>
              op.res \notin {"InvalidLevelError", "InvalidPriorityError",
                             "InvalidKeywordError", "InvalidBodyError"}
        /\ (/\ ErrorsOf(out.builder) = {}
            /\ op.name = "validate_partially"
            /\ \A k \in 1..Len(out.builder.raw_tags_string) :
                  TagValidationClass(out.builder.raw_tags_string[k]))
              => op.res = "Ok"

C16_Witness ==
    /\ op.name = "validate_partially"
    /\ op.res = "InvalidBodyError"
    /\ out.builder.body = <<"b", NL, STAR, STAR, SP, "c">>

\* C17: validate_partially and to_rope return InvalidTagsError whenever the
\* non-empty raw tag string has a character outside alphanumerics, '_',
\* '@', '#', '%' and ':', and to_rope then emits no text. (Stated for
\* builders whose level and priority are valid, which are tested first.)
C17_InvalidTags ==
    (/\ op.name \in {"validate_partially", "to_rope"}
     /\ ~BadLevel(out.builder)
     /\ ~BadPriority(out.builder)
     /\ \E k \in 1..Len(out.builder.raw_tags_string) :
           ~TagValidationClass(out.builder.raw_tags_string[k]))
        => op.res = "InvalidTagsError" /\ out.rope = <<>>

(***************************************************************************)
(* Tags                                                                    *)
(***************************************************************************)
\* t is one of the ':'-separated components of raw
IsComponent(t, raw) == \E i \in 1..Len(split(raw, COLON)) : split(raw, COLON)[i] = t

\* C19: for Headline::has_tag and HeadlineBuilder::has_tag, for every raw
\* tag string and every t, has_tag(t) is true if and only if t is not
\* empty and is one of the ':'-separated components of the raw tags.
C19_HasTag ==
    op.name \in {"Headline::has_tag", "HeadlineBuilder::has_tag"} =>
        (out.found <=> (op.text # <<>> /\ IsComponent(op.text, out.builder.raw_tags_string)))

(***************************************************************************)
(* Parsing, writing out and parsing again                                  *)
(***************************************************************************)
\* C18: for every section text T of level >= 1, with h = parse_headline(T):
\* parse_headline returns h, h.to_builder().headline() returns Ok, and its
\* result equals h in every field.
C18_RoundTrip ==
    /\ op.name = "parse_headline" => op.res = "Some"
    /\ op.name = "headline" =>
          /\ op.res = "Ok"
          /\ out.headline = Some(out.builder)

(***************************************************************************)
(* The planning line                                                       *)
(***************************************************************************)
PointOn(active, day) ==
    [kind |-> "Point",
     point |-> [active |-> active, date |-> [year |-> 2022, month |-> 8, day |-> day],
                cookie |-> [repeater |-> None, delay |-> None], time |-> None]]

\* the timestamps the planning lines are written with
TimestampValue(text) == IF text = Aug28 THEN PointOn(TRUE, 28) ELSE PointOn(FALSE, 29)

IsTimestamp(text) == text \in {Aug28, Aug29}

\* the timestamp of the last pair of the line with the keyword, if any
LastOf(pairs, keyword) ==
    IF \E i \in 1..Len(pairs) : pairs[i].keyword = keyword
    THEN Some(TimestampValue(
             pairs[CHOOSE i \in 1..Len(pairs) :
                       /\ pairs[i].keyword = keyword
                       /\ \A j \in (i + 1)..Len(pairs) : pairs[j].keyword # keyword
                  ].timestamp))
    ELSE None

PlanningOf(pairs) ==
    [deadline |-> LastOf(pairs, DEADLINE), scheduled |-> LastOf(pairs, SCHEDULED),
     closed |-> LastOf(pairs, CLOSED)]

BodyText(body) == IF body = None THEN <<>> ELSE body[1]

\* the texts whose second line is a sequence of pairs, with what the
\* headline is to hold
PairCases ==
    {[text |-> WithBody(PairLineText(l), body), planning |-> PlanningOf(l.pairs),
      body |-> BodyText(body)] :
        l \in {k \in PairLines : \A i \in 1..Len(k.pairs) : IsTimestamp(k.pairs[i].timestamp)},
        body \in Bodies}

\* the texts whose second line does not start with a pair: the body is
\* everything after the title line
NoPairCases ==
    {[text |-> WithBody(line, body), planning |-> NoPlanning,
      body |-> Drop(WithBody(line, body), Len(Headline(1)) + 1)] :
        line \in OtherLines
                 \cup {PairLineText(l) : l \in {k \in PairLines : ~IsTimestamp(k.pairs[1].timestamp)}},
        body \in Bodies}

\* C20: when the line after the title line is a sequence of one or more
\* 'KEYWORD: timestamp' pairs, optionally separated and surrounded by spaces
\* and tabs, the planning holds for each keyword the timestamp of its last
\* occurrence and the body excludes the line; when no pair parses at the
\* start of that line, the planning is empty and the body is everything
\* after the title line.
C20_PlanningLine ==
    op.name = "parse_headline" =>
        \A c \in PairCases \cup NoPairCases :
            input = c.text =>
                /\ op.res = "Some"
                /\ out.headline[1].planning = c.planning
                /\ out.headline[1].body = c.body

(***************************************************************************)
(* The headline predicate                                                  *)
(***************************************************************************)
\* the level of a line made of n stars and a tail that starts with no star
StarsThenSpace(in) == in.stars >= 1 /\ in.tail # <<>> /\ in.tail[1] = SP

\* C24: headline_level(line, 0) is n for every line that starts with n >= 1
\* stars immediately followed by the byte 0x20, whatever n is, and 0 in
\* every other case (no star, stars followed by a tab, CR, LF, Unicode
\* whitespace or another byte, stars up to the end of the input).
C24_HeadlineLevel ==
    op.name = "headline_level" =>
        out.level = IF StarsThenSpace(input) THEN input.stars ELSE 0

(***************************************************************************)
(* Timestamps                                                              *)
(***************************************************************************)
\* the values the round trip is claimed for
WellFormedTimestamp(t) ==
    IF t.kind = "Range" THEN t.start.active = t.end.active
    ELSE IF t.kind = "TimeRange" THEN t.start.time # None
    ELSE IF t.kind = "Diary" THEN \A i \in 1..Len(t.text) : t.text[i] \notin {">", NL}
    ELSE t.kind = "Point"

\* C21: for every well-formed timestamp value T (a Point, a Range whose
\* points share activity, a TimeRange whose start has a time, a Diary whose
\* text has no '>' or newline, with any repeater and delay), Timestamp::parse
\* of the text written by T's Display consumes the whole text and returns a
\* value equal to T.
C21_TimestampRoundTrip ==
    op.name = "parse" /\ WellFormedTimestamp(input.value) =>
        /\ out.parsed.ok
        /\ out.parsed.rest = <<>>
        /\ out.parsed.val = input.value

\* C22: for a text yyyy-mm-dd whose digits name no calendar date, Date::parse
\* and Timestamp::parse on a timestamp text that holds it report a parse
\* error: they neither produce a value nor panic.
C22_InvalidDateRejected ==
    op.name \in {"Date::parse", "Timestamp::parse"} /\ input.text \in NoDateTexts =>
        ~panicked /\ ~out.parsed.ok /\ ~out.parsed.panic

(***************************************************************************)
(* The internal checks of parse_document                                   *)
(***************************************************************************)
\* C30: for every input, parse_document ends without any of its checks
\* firing (the stack is never empty, the final offset is the length of the
\* input, the checker passes), and for every node it made the level lexed
\* from the text is the stored level and no line of the text after the
\* first is a headline line.
C30_ParseChecks ==
    op.name = "parse_str" =>
        /\ ~panicked
        /\ \A n \in Nodes(arena) :
              /\ lex_level(arena.text[n]) = arena.level[n]
              /\ \A k \in 2..Len(arena.text[n]) : ~HeadlineLineAt(arena.text[n], k)

(***************************************************************************)
(* The tree and the flags that parsing gives                               *)
(***************************************************************************)
\* the headline lines of s by their first index, in input order
HeadlineStarts(s) == {k \in 1..Len(s) : HeadlineLineAt(s, k)}

NthStart(s, i) ==
    CHOOSE k \in HeadlineStarts(s) :
        Cardinality({j \in HeadlineStarts(s) : j < k}) = i - 1

\* the number of stars of the headline line at k
StarsAt(s, k) ==
    CHOOSE n \in 1..(Len(s) - k) :
        /\ \A i \in k..(k + n - 1) : s[i] = STAR
        /\ s[k + n] = SP

NthLevel(s, i) == StarsAt(s, NthStart(s, i))

\* the nearest headline before the i-th whose level is strictly smaller, or
\* 0 for the root
NearestSmaller(s, i) ==
    IF \A j \in 1..(i - 1) : NthLevel(s, j) >= NthLevel(s, i) THEN 0
    ELSE CHOOSE j \in 1..(i - 1) :
             /\ NthLevel(s, j) < NthLevel(s, i)
             /\ \A k \in (j + 1)..(i - 1) : NthLevel(s, k) >= NthLevel(s, i)

\* the last index of the i-th of m headline sections: before the newline
\* that precedes the next headline line, or the end of s less one final
\* newline
SectionEnd(s, i, m) ==
    IF i < m THEN NthStart(s, i + 1) - 2
    ELSE IF s[Len(s)] = NL THEN Len(s) - 1
    ELSE Len(s)

Increasing(seq) == \A i \in 1..(Len(seq) - 1) : seq[i] < seq[i + 1]

\* the tree of the document parsed from s: the root is node 1 and the i-th
\* headline of s is node i + 1
TreeOf(ar, s, m) ==
    /\ NumNodes(ar) = m + 1
    /\ \A i \in 1..m :
          /\ ar.level[i + 1] = NthLevel(s, i)
          /\ ar.parent[i + 1] = NearestSmaller(s, i) + 1
          /\ ar.text[i + 1] = SubSeq(s, NthStart(s, i), SectionEnd(s, i, m))
    /\ \A n \in Nodes(ar) : Increasing(children(ar, n))

\* C23: in the tree returned by parsing any input, the parent of every
\* headline section is the nearest preceding headline of strictly smaller
\* level, or the root when there is none; the children of a node are in input
\* order; each headline section's text runs from its headline line up to, but
\* not including, the newline before the next headline line, or to the end
\* of the input less one final newline.
C23_TreeShape ==
    op.name = "parse_str" /\ ~panicked =>
        TreeOf(arena, input, Cardinality(HeadlineStarts(input)))

\* C23 witness: an input of a headline, a deeper one that is attached to
\* it, and a third that returns to the level of the first and so is
\* attached to the root.
C23_Witness ==
    /\ op.name = "parse_str"
    /\ ~panicked
    /\ NumNodes(arena) = 4
    /\ arena.parent[3] = 2
    /\ arena.parent[4] = 1
    /\ arena.level[4] = arena.level[2]

\* C25: parsing sets terminal_newline exactly when the last byte of the
\* input is '\n' and empty_root_section exactly when no byte precedes the
\* first headline (the input is empty or its first line is a headline); ""
\* gives (empty_root_section, terminal_newline) = (true, false), "\n" an
\* empty root text with (false, true), and '\n' followed by a headline an
\* empty root text with empty_root_section false.
C25_DocumentFlags ==
    op.name = "parse_str" /\ ~panicked =>
        /\ docs[1].terminal_newline <=> EndsWithNewline(input)
        /\ docs[1].empty_root_section <=> (input = <<>> \/ HeadlineLineAt(input, 1))
        /\ input = <<NL>> =>
              arena.text[1] = <<>> /\ ~docs[1].empty_root_section
                  /\ docs[1].terminal_newline
        /\ (Len(input) > 1 /\ input[1] = NL /\ HeadlineLineAt(input, 2)) =>
              arena.text[1] = <<>> /\ ~docs[1].empty_root_section

\* C25 witness: an input of a newline and then a headline has been parsed.
C25_Witness ==
    /\ op.name = "parse_str"
    /\ ~panicked
    /\ Len(input) > 1
    /\ input[1] = NL
    /\ HeadlineLineAt(input, 2)
    /\ arena.text[1] = <<>>
    /\ ~docs[1].empty_root_section

\* C26: whenever append, prepend, insert_before or insert_after returns an
\* error (LevelError because the sibling has no parent, or an IndextreeError
\* such as attaching a node to itself or to one of its descendants), no
\* node's level, text, parent or children have changed.
C26_ErrorLeavesTree ==
    (op.name \in AttachOps /\ ~Succeeded(op.res)) =>
        /\ Untouched(op.pre, arena)
        /\ \A n \in Nodes(op.pre) : children(arena, n) = children(op.pre, n)

\* the part of C26 that holds: a LevelError of the four operations changes
\* nothing, and an IndextreeError changes no link
C26_ErrorLeavesLinks ==
    (op.name \in AttachOps /\ ~Succeeded(op.res)) =>
        /\ SameLinks(op.pre, arena)
        /\ op.res = "LevelError" => Untouched(op.pre, arena)

\* the position in the preorder ns of the parent of its i-th node, 0 for the
\* first
ParentPos(ar, ns, i) ==
    IF i = 1 THEN 0 ELSE IndexOf(ns, ar.parent[ns[i]])

\* the subtree of ar at a and the subtree of br at b have the same section
\* texts and levels in the same parent/child/sibling arrangement
SameShape(ar, a, br, b) ==
    LET ns == subtree(ar, a)
        ms == subtree(br, b)
    IN /\ Len(ns) = Len(ms)
       /\ \A i \in 1..Len(ns) :
             /\ ar.level[ns[i]] = br.level[ms[i]]
             /\ ar.text[ns[i]] = br.text[ms[i]]
             /\ ParentPos(ar, ns, i) = ParentPos(br, ms, i)

\* every child in the subtree at n has a strictly greater level than its
\* parent
MonotoneTree(ar, n) ==
    \A i \in 2..Len(subtree(ar, n)) :
        ar.level[subtree(ar, n)[i]] > ar.level[ar.parent[subtree(ar, n)[i]]]

Reparsed_document(rope) == parse_document(EmptyArena, rope)

SiblingsDescend(ar, n) ==
    \A i \in 2..Len(subtree(ar, n)) :
        ar.prev[subtree(ar, n)[i]] # 0 =>
            ar.level[subtree(ar, n)[i]] <= ar.level[ar.prev[subtree(ar, n)[i]]]

LastSection(ar, n) == subtree(ar, n)[Len(subtree(ar, n))]

\* what the emission needs of the document to be parsed back into the same
\* tree: a root of level 0, siblings of descending level, and a last section
\* whose text ends with a newline only if the document has a terminal one
Reparsable(ar, doc) ==
    /\ ar.level[doc.root] = 0
    /\ SiblingsDescend(ar, doc.root)
    /\ doc.terminal_newline \/ ~EndsWithNewline(ar.text[LastSection(ar, doc.root)])

Slots(ar, doc) ==
    IF RootSlot(ar, doc) THEN subtree(ar, doc.root)
    ELSE Tail(subtree(ar, doc.root))

\* the index in the emission at which the text of the i-th slot starts: each
\* text before it is followed by one newline
RECURSIVE SlotStart(_, _, _)
SlotStart(ar, slots, i) ==
    IF i = 1 THEN 0
    ELSE SlotStart(ar, slots, i - 1) + Len(ar.text[slots[i - 1]]) + 1

\* the i-th slot covers pos with its text or with the newline after it
Covers(ar, slots, i, pos) ==
    /\ SlotStart(ar, slots, i) <= pos
    /\ pos <= SlotStart(ar, slots, i) + Len(ar.text[slots[i]])

\* C29: for every parsed document and every index pos below the length of
\* its emission, Document::at(pos) returns Some((s, off)) where s is the
\* section whose emitted text, or the newline emitted right after it, covers
\* pos, and off is pos minus the index at which s's text starts (off equal to
\* the text length denotes that newline; a leading implicit newline maps to
\* the root at offset 0); for pos at or beyond the length it returns None.
C29_DocumentAt ==
    op.name = "at" =>
        IF out.pos >= Len(out.rope) THEN op.res = "None"
        ELSE /\ op.res = "Some"
             /\ \E i \in 1..Len(Slots(arena, docs[out.doc])) :
                   /\ Covers(arena, Slots(arena, docs[out.doc]), i, out.pos)
                   /\ op.ret = Slots(arena, docs[out.doc])[i]
                   /\ out.offset = out.pos - SlotStart(arena, Slots(arena, docs[out.doc]), i)

\* a document is flat with an empty root text: no section but the root has
\* a child and the root has no text
FlatNoRootText(ar, doc) ==
    /\ ar.text[doc.root] = <<>>
    /\ \A n \in Nodes(ar) : ar.parent[n] \in {0, doc.root}

\* the part of C29 that holds: on flat documents whose root has no text
C29_DocumentAtFlat ==
    (op.name = "at" /\ FlatNoRootText(arena, docs[out.doc])) =>
        IF out.pos >= Len(out.rope) THEN op.res = "None"
        ELSE /\ op.res = "Some"
             /\ \E i \in 1..Len(Slots(arena, docs[out.doc])) :
                   /\ Covers(arena, Slots(arena, docs[out.doc]), i, out.pos)
                   /\ op.ret = Slots(arena, docs[out.doc])[i]
                   /\ out.offset = out.pos - SlotStart(arena, Slots(arena, docs[out.doc]), i)

\* the components of a raw tag string: none for the empty string
RawTagList(raw) == IF raw = <<>> THEN <<>> ELSE split(raw, COLON)

\* the non-empty members of seq, each once, in the order of their first
\* occurrence
RECURSIVE FirstOccurrences(_)
FirstOccurrences(seq) ==
    IF seq = <<>> THEN <<>>
    ELSE IF seq[Len(seq)] = <<>>
            \/ \E i \in 1..(Len(seq) - 1) : seq[i] = seq[Len(seq)]
    THEN FirstOccurrences(SubSeq(seq, 1, Len(seq) - 1))
    ELSE Append(FirstOccurrences(SubSeq(seq, 1, Len(seq) - 1)), seq[Len(seq)])

NoEmptyNoDuplicate(seq) ==
    /\ \A i \in 1..Len(seq) : seq[i] # <<>>
    /\ \A i, j \in 1..Len(seq) : seq[i] = seq[j] => i = j

\* C28: after update_tags(ts), for any prior raw tag string including the
\* empty one and any ts, the raw tag list has no empty and no duplicate
\* components: it is the previously present tags in first-occurrence order
\* followed by the non-empty members of ts not already present, each once,
\* in the order given.
C28_UpdateTags ==
    op.name = "update_tags" =>
        /\ NoEmptyNoDuplicate(RawTagList(out.builder.raw_tags_string))
        /\ RawTagList(out.builder.raw_tags_string)
               = FirstOccurrences(RawTagList(input.prior) \o input.tags)

\* the part of C28 that holds: the prior raw tag string is not empty and no
\* tag given holds a ':'
C28_UpdateTagsPresent ==
    (op.name = "update_tags" /\ input.prior # <<>>
     /\ \A i \in 1..Len(input.tags) : Len(RawTagList(input.tags[i])) <= 1) =>
        /\ NoEmptyNoDuplicate(RawTagList(out.builder.raw_tags_string))
        /\ RawTagList(out.builder.raw_tags_string)
               = FirstOccurrences(RawTagList(input.prior) \o input.tags)

====
